---- MODULE Spec2Model ----
(***************************************************************************)
(* Funding-rate arbitrage analysis: the two opportunity matchers           *)
(* (Strategy1Service, Strategy2Service), the commission calculator and     *)
(* the strategy allocator.                                                 *)
(*                                                                         *)
(* Units.  Funding and fee rates are integers in units of 0.00001 (so      *)
(* 0.0015 is 150); dollar amounts are in units of 0.00001 $ (notional      *)
(* 1000 $ times a rate of 150 is 150000, i.e. 1.50 $).  Times are whole    *)
(* minutes (the code holds epoch milliseconds and divides differences by   *)
(* 60000 before comparing them with thresholds given in minutes).          *)
(***************************************************************************)
EXTENDS Integers, Sequences, FiniteSets

VARIABLES tickerData, last, spreadsData, now, pc,
          strategy1Opportunities, strategy2Opportunities, allocation,
          decisions, activeMonitoring, timers, stabilityChecks, tick,
          timeouts, fires, ghost

vars == <<tickerData, last, spreadsData, now, pc,
          strategy1Opportunities, strategy2Opportunities, allocation,
          decisions, activeMonitoring, timers, stabilityChecks, tick,
          timeouts, fires, ghost>>

\* The fields of the scheduler and of the monitoring service, the pending
\* timers with the number of setTimeout calls made, the calls of
\* checkFundingStability that are awaiting, the record of the running tick
\* and the record of what became of the checks.
serviceVars ==
  <<decisions, activeMonitoring, timers, stabilityChecks, tick, timeouts, fires, ghost>>

----------------------------------------------------------------------------
(* Bounds of the model *)

\* At most this many venues of one snapshot carry an entry.
MaxPresent == 3

\* At most this many tickers in one fetched table.
MaxTickers == 2

----------------------------------------------------------------------------
(* Data *)

Abs(x) == IF x < 0 THEN -x ELSE x

Min2(a, b) == IF a < b THEN a ELSE b

\* The venue iteration order of both matchers.
Exchanges == <<"binance", "bybit", "bitget", "bingx", "mexc", "bitmex", "okx">>

ExchangeSet == {Exchanges[i] : i \in 1..Len(Exchanges)}

\* A venue entry of a snapshot row.  present = FALSE stands for an undefined
\* property; rateKnown = FALSE for a null or undefined fundingRate;
\* nextFundingTime = 0 for a missing or zero payout time (both are falsy).
NoData == [present |-> FALSE, rateKnown |-> FALSE, fundingRate |-> 0, nextFundingTime |-> 0]

Quote(r, t) == [present |-> TRUE, rateKnown |-> TRUE, fundingRate |-> r, nextFundingTime |-> t]

\* A snapshot row: the ticker and one entry per venue.
Row(ticker, entries) ==
  [ticker |-> ticker,
   data |-> [e \in ExchangeSet |-> IF e \in DOMAIN entries THEN entries[e] ELSE NoData]]

\* StrategyOpportunity; NoOpp stands for null.
NoOpp ==
  [ticker |-> "", longExchange |-> "", shortExchange |-> "",
   longFundingRate |-> 0, shortFundingRate |-> 0, fundingDiff |-> 0,
   nextFundingTime |-> 0, timeToFunding |-> 0, strategy |-> "none"]

\* Strategy1Service.defaultConfig
DefaultConfig1 ==
  [minFundingDiff |-> 150, maxTimeDiff |-> 5, minTimeToFunding |-> 3, maxTimeToFunding |-> 15]

\* Strategy2Service.defaultConfig
DefaultConfig2 ==
  [minTimeDiff |-> 30, minTimeToFunding |-> 4, maxTimeToFunding |-> 15, minAbsFundingRate |-> 200]

\* { ...defaultConfig, ...config }: the fields the caller gives override the defaults.
MergeConfig(default, config) ==
  [f \in DOMAIN default |-> IF f \in DOMAIN config THEN config[f] ELSE default[f]]

\* The clock as one call of findBestOpportunity reads it: Date.now() is read
\* once per venue pair, in pair order, and never goes back.  Reads before
\* pair number adv return at, the reads from pair adv on return at + 1.
ClockAt(clk, k) == IF k >= clk.adv THEN clk.at + 1 ELSE clk.at

----------------------------------------------------------------------------
(* The matchers *)

\* A slip: the rate is not tested.
HasDataRateUntested(d) == d.present /\ d.nextFundingTime # 0

\* data && data.fundingRate !== null && data.fundingRate !== undefined && data.nextFundingTime
HasData(d) == d.present /\ d.rateKnown /\ d.nextFundingTime # 0

\* availableExchanges after the venues from position i on have been visited.
RECURSIVE AvailableFrom(_, _)
AvailableFrom(td, i) ==
  IF i > Len(Exchanges) THEN <<>>
  ELSE LET d == td.data[Exchanges[i]]
       IN  (IF HasData(d)
              THEN <<[exchange |-> Exchanges[i], fundingRate |-> d.fundingRate,
                      nextFundingTime |-> d.nextFundingTime]>>
              ELSE <<>>)
           \o AvailableFrom(td, i + 1)

AvailableExchanges(td) == AvailableFrom(td, 1)

\* The (i, j) of the nested loops, i < j, in the order the loops visit them.
RECURSIVE PairsFrom(_, _, _)
PairsFrom(i, j, n) ==
  IF i >= n THEN <<>>
  ELSE IF j > n THEN PairsFrom(i + 1, i + 2, n)
  ELSE <<<<i, j>>>> \o PairsFrom(i, j + 1, n)

PairOrder(n) == PairsFrom(1, 2, n)

\* A slip: the lead time is taken from the later payout.
Strategy1PairLaterLead(ticker, cfg, exchange1, exchange2, nowRead) ==
  LET timeDiff == Abs(exchange1.nextFundingTime - exchange2.nextFundingTime)
      fundingDiff == Abs(exchange1.fundingRate - exchange2.fundingRate)
      timeToFunding1 == exchange1.nextFundingTime - nowRead
      timeToFunding2 == exchange2.nextFundingTime - nowRead
      minTimeToFunding == IF timeToFunding1 < timeToFunding2 THEN timeToFunding2 ELSE timeToFunding1
      longExchange == IF exchange1.fundingRate < exchange2.fundingRate THEN exchange1 ELSE exchange2
      shortExchange == IF exchange1.fundingRate < exchange2.fundingRate THEN exchange2 ELSE exchange1
  IN  IF timeDiff > cfg.maxTimeDiff THEN <<>>
      ELSE IF fundingDiff < cfg.minFundingDiff THEN <<>>
      ELSE IF minTimeToFunding < cfg.minTimeToFunding \/ minTimeToFunding > cfg.maxTimeToFunding
             THEN <<>>
      ELSE <<[ticker |-> ticker,
              longExchange |-> longExchange.exchange,
              shortExchange |-> shortExchange.exchange,
              longFundingRate |-> longExchange.fundingRate,
              shortFundingRate |-> shortExchange.fundingRate,
              fundingDiff |-> fundingDiff,
              nextFundingTime |-> Min2(exchange1.nextFundingTime, exchange2.nextFundingTime),
              timeToFunding |-> minTimeToFunding,
              strategy |-> "rate_arbitrage"]>>

\* A slip: the venue with the higher rate is made the long leg.
Strategy1PairHigherLong(ticker, cfg, exchange1, exchange2, nowRead) ==
  LET timeDiff == Abs(exchange1.nextFundingTime - exchange2.nextFundingTime)
      fundingDiff == Abs(exchange1.fundingRate - exchange2.fundingRate)
      timeToFunding1 == exchange1.nextFundingTime - nowRead
      timeToFunding2 == exchange2.nextFundingTime - nowRead
      minTimeToFunding == Min2(timeToFunding1, timeToFunding2)
      longExchange == IF exchange1.fundingRate > exchange2.fundingRate THEN exchange1 ELSE exchange2
      shortExchange == IF exchange1.fundingRate > exchange2.fundingRate THEN exchange2 ELSE exchange1
  IN  IF timeDiff > cfg.maxTimeDiff THEN <<>>
      ELSE IF fundingDiff < cfg.minFundingDiff THEN <<>>
      ELSE IF minTimeToFunding < cfg.minTimeToFunding \/ minTimeToFunding > cfg.maxTimeToFunding
             THEN <<>>
      ELSE <<[ticker |-> ticker,
              longExchange |-> longExchange.exchange,
              shortExchange |-> shortExchange.exchange,
              longFundingRate |-> longExchange.fundingRate,
              shortFundingRate |-> shortExchange.fundingRate,
              fundingDiff |-> fundingDiff,
              nextFundingTime |-> Min2(exchange1.nextFundingTime, exchange2.nextFundingTime),
              timeToFunding |-> minTimeToFunding,
              strategy |-> "rate_arbitrage"]>>

\* A slip: the rate difference is taken without its absolute value.
Strategy1PairSignedGap(ticker, cfg, exchange1, exchange2, nowRead) ==
  LET timeDiff == Abs(exchange1.nextFundingTime - exchange2.nextFundingTime)
      fundingDiff == exchange1.fundingRate - exchange2.fundingRate
      timeToFunding1 == exchange1.nextFundingTime - nowRead
      timeToFunding2 == exchange2.nextFundingTime - nowRead
      minTimeToFunding == Min2(timeToFunding1, timeToFunding2)
      longExchange == IF exchange1.fundingRate < exchange2.fundingRate THEN exchange1 ELSE exchange2
      shortExchange == IF exchange1.fundingRate < exchange2.fundingRate THEN exchange2 ELSE exchange1
  IN  IF timeDiff > cfg.maxTimeDiff THEN <<>>
      ELSE IF fundingDiff < cfg.minFundingDiff THEN <<>>
      ELSE IF minTimeToFunding < cfg.minTimeToFunding \/ minTimeToFunding > cfg.maxTimeToFunding
             THEN <<>>
      ELSE <<[ticker |-> ticker,
              longExchange |-> longExchange.exchange,
              shortExchange |-> shortExchange.exchange,
              longFundingRate |-> longExchange.fundingRate,
              shortFundingRate |-> shortExchange.fundingRate,
              fundingDiff |-> fundingDiff,
              nextFundingTime |-> Min2(exchange1.nextFundingTime, exchange2.nextFundingTime),
              timeToFunding |-> minTimeToFunding,
              strategy |-> "rate_arbitrage"]>>

\* One iteration of Strategy 1's loop body: the opportunity pushed for the
\* pair (exchange1, exchange2), or nothing when a filter says continue.
Strategy1Pair(ticker, cfg, exchange1, exchange2, nowRead) ==
  LET timeDiff == Abs(exchange1.nextFundingTime - exchange2.nextFundingTime)
      fundingDiff == Abs(exchange1.fundingRate - exchange2.fundingRate)
      timeToFunding1 == exchange1.nextFundingTime - nowRead
      timeToFunding2 == exchange2.nextFundingTime - nowRead
      minTimeToFunding == Min2(timeToFunding1, timeToFunding2)
      longExchange == IF exchange1.fundingRate < exchange2.fundingRate THEN exchange1 ELSE exchange2
      shortExchange == IF exchange1.fundingRate < exchange2.fundingRate THEN exchange2 ELSE exchange1
  IN  IF timeDiff > cfg.maxTimeDiff THEN <<>>
      ELSE IF fundingDiff < cfg.minFundingDiff THEN <<>>
      ELSE IF minTimeToFunding < cfg.minTimeToFunding \/ minTimeToFunding > cfg.maxTimeToFunding
             THEN <<>>
      ELSE <<[ticker |-> ticker,
              longExchange |-> longExchange.exchange,
              shortExchange |-> shortExchange.exchange,
              longFundingRate |-> longExchange.fundingRate,
              shortFundingRate |-> shortExchange.fundingRate,
              fundingDiff |-> fundingDiff,
              nextFundingTime |-> Min2(exchange1.nextFundingTime, exchange2.nextFundingTime),
              timeToFunding |-> minTimeToFunding,
              strategy |-> "rate_arbitrage"]>>

\* A slip: the payout skew is not tested.
Strategy2PairAnySkew(ticker, cfg, exchange1, exchange2, nowRead) ==
  LET absFundingRate1 == Abs(exchange1.fundingRate)
      absFundingRate2 == Abs(exchange2.fundingRate)
      timeToFunding1 == exchange1.nextFundingTime - nowRead
      timeToFunding2 == exchange2.nextFundingTime - nowRead
      minTimeToFunding == Min2(timeToFunding1, timeToFunding2)
      totalFundingPotential == absFundingRate1 + absFundingRate2
      firstExchange == IF exchange1.nextFundingTime < exchange2.nextFundingTime THEN exchange1 ELSE exchange2
      secondExchange == IF exchange1.nextFundingTime < exchange2.nextFundingTime THEN exchange2 ELSE exchange1
  IN  IF absFundingRate1 < cfg.minAbsFundingRate \/ absFundingRate2 < cfg.minAbsFundingRate
             THEN <<>>
      ELSE IF minTimeToFunding < cfg.minTimeToFunding \/ minTimeToFunding > cfg.maxTimeToFunding
             THEN <<>>
      ELSE <<[ticker |-> ticker,
              longExchange |-> firstExchange.exchange,
              shortExchange |-> secondExchange.exchange,
              longFundingRate |-> firstExchange.fundingRate,
              shortFundingRate |-> secondExchange.fundingRate,
              fundingDiff |-> totalFundingPotential,
              nextFundingTime |-> firstExchange.nextFundingTime,
              timeToFunding |-> minTimeToFunding,
              strategy |-> "timing_arbitrage"]>>

\* A slip: a pair is dropped only when both legs are below the minimum rate.
Strategy2PairEitherLeg(ticker, cfg, exchange1, exchange2, nowRead) ==
  LET timeDiff == Abs(exchange1.nextFundingTime - exchange2.nextFundingTime)
      absFundingRate1 == Abs(exchange1.fundingRate)
      absFundingRate2 == Abs(exchange2.fundingRate)
      timeToFunding1 == exchange1.nextFundingTime - nowRead
      timeToFunding2 == exchange2.nextFundingTime - nowRead
      minTimeToFunding == Min2(timeToFunding1, timeToFunding2)
      totalFundingPotential == absFundingRate1 + absFundingRate2
      firstExchange == IF exchange1.nextFundingTime < exchange2.nextFundingTime THEN exchange1 ELSE exchange2
      secondExchange == IF exchange1.nextFundingTime < exchange2.nextFundingTime THEN exchange2 ELSE exchange1
  IN  IF timeDiff < cfg.minTimeDiff THEN <<>>
      ELSE IF absFundingRate1 < cfg.minAbsFundingRate /\ absFundingRate2 < cfg.minAbsFundingRate
             THEN <<>>
      ELSE IF minTimeToFunding < cfg.minTimeToFunding \/ minTimeToFunding > cfg.maxTimeToFunding
             THEN <<>>
      ELSE <<[ticker |-> ticker,
              longExchange |-> firstExchange.exchange,
              shortExchange |-> secondExchange.exchange,
              longFundingRate |-> firstExchange.fundingRate,
              shortFundingRate |-> secondExchange.fundingRate,
              fundingDiff |-> totalFundingPotential,
              nextFundingTime |-> firstExchange.nextFundingTime,
              timeToFunding |-> minTimeToFunding,
              strategy |-> "timing_arbitrage"]>>

\* A slip: the leg that pays later is recorded first.
Strategy2PairLaterFirst(ticker, cfg, exchange1, exchange2, nowRead) ==
  LET timeDiff == Abs(exchange1.nextFundingTime - exchange2.nextFundingTime)
      absFundingRate1 == Abs(exchange1.fundingRate)
      absFundingRate2 == Abs(exchange2.fundingRate)
      timeToFunding1 == exchange1.nextFundingTime - nowRead
      timeToFunding2 == exchange2.nextFundingTime - nowRead
      minTimeToFunding == Min2(timeToFunding1, timeToFunding2)
      totalFundingPotential == absFundingRate1 + absFundingRate2
      firstExchange == IF exchange1.nextFundingTime > exchange2.nextFundingTime THEN exchange1 ELSE exchange2
      secondExchange == IF exchange1.nextFundingTime > exchange2.nextFundingTime THEN exchange2 ELSE exchange1
  IN  IF timeDiff < cfg.minTimeDiff THEN <<>>
      ELSE IF absFundingRate1 < cfg.minAbsFundingRate \/ absFundingRate2 < cfg.minAbsFundingRate
             THEN <<>>
      ELSE IF minTimeToFunding < cfg.minTimeToFunding \/ minTimeToFunding > cfg.maxTimeToFunding
             THEN <<>>
      ELSE <<[ticker |-> ticker,
              longExchange |-> firstExchange.exchange,
              shortExchange |-> secondExchange.exchange,
              longFundingRate |-> firstExchange.fundingRate,
              shortFundingRate |-> secondExchange.fundingRate,
              fundingDiff |-> totalFundingPotential,
              nextFundingTime |-> firstExchange.nextFundingTime,
              timeToFunding |-> minTimeToFunding,
              strategy |-> "timing_arbitrage"]>>

\* One iteration of Strategy 2's loop body.
Strategy2Pair(ticker, cfg, exchange1, exchange2, nowRead) ==
  LET timeDiff == Abs(exchange1.nextFundingTime - exchange2.nextFundingTime)
      absFundingRate1 == Abs(exchange1.fundingRate)
      absFundingRate2 == Abs(exchange2.fundingRate)
      timeToFunding1 == exchange1.nextFundingTime - nowRead
      timeToFunding2 == exchange2.nextFundingTime - nowRead
      minTimeToFunding == Min2(timeToFunding1, timeToFunding2)
      totalFundingPotential == absFundingRate1 + absFundingRate2
      firstExchange == IF exchange1.nextFundingTime < exchange2.nextFundingTime THEN exchange1 ELSE exchange2
      secondExchange == IF exchange1.nextFundingTime < exchange2.nextFundingTime THEN exchange2 ELSE exchange1
  IN  IF timeDiff < cfg.minTimeDiff THEN <<>>
      ELSE IF absFundingRate1 < cfg.minAbsFundingRate \/ absFundingRate2 < cfg.minAbsFundingRate
             THEN <<>>
      ELSE IF minTimeToFunding < cfg.minTimeToFunding \/ minTimeToFunding > cfg.maxTimeToFunding
             THEN <<>>
      ELSE <<[ticker |-> ticker,
              longExchange |-> firstExchange.exchange,
              shortExchange |-> secondExchange.exchange,
              longFundingRate |-> firstExchange.fundingRate,
              shortFundingRate |-> secondExchange.fundingRate,
              fundingDiff |-> totalFundingPotential,
              nextFundingTime |-> firstExchange.nextFundingTime,
              timeToFunding |-> minTimeToFunding,
              strategy |-> "timing_arbitrage"]>>

\* The opportunities array of Strategy 1 after the loops: pair number k of
\* pairs reads the clock as ClockAt(clk, k).
RECURSIVE Opportunities1From(_, _, _, _, _, _)
Opportunities1From(ticker, cfg, avail, pairs, k, clk) ==
  IF k > Len(pairs) THEN <<>>
  ELSE Strategy1Pair(ticker, cfg, avail[pairs[k][1]], avail[pairs[k][2]], ClockAt(clk, k))
       \o Opportunities1From(ticker, cfg, avail, pairs, k + 1, clk)

Opportunities1(td, cfg, clk) ==
  LET avail == AvailableExchanges(td)
  IN  Opportunities1From(td.ticker, cfg, avail, PairOrder(Len(avail)), 1, clk)

RECURSIVE Opportunities2From(_, _, _, _, _, _)
Opportunities2From(ticker, cfg, avail, pairs, k, clk) ==
  IF k > Len(pairs) THEN <<>>
  ELSE Strategy2Pair(ticker, cfg, avail[pairs[k][1]], avail[pairs[k][2]], ClockAt(clk, k))
       \o Opportunities2From(ticker, cfg, avail, pairs, k + 1, clk)

Opportunities2(td, cfg, clk) ==
  LET avail == AvailableExchanges(td)
  IN  Opportunities2From(td.ticker, cfg, avail, PairOrder(Len(avail)), 1, clk)

\* A slip: >= in place of >, so the last of several equal candidates wins.
RECURSIVE ReduceBestLastWins(_, _, _)
ReduceBestLastWins(opps, k, best) ==
  IF k > Len(opps) THEN best
  ELSE ReduceBestLastWins(opps, k + 1,
         IF opps[k].fundingDiff >= best.fundingDiff THEN opps[k] ELSE best)

\* opportunities.reduce((best, current) =>
\*   current.fundingDiff > best.fundingDiff ? current : best), from element k on.
RECURSIVE ReduceBest(_, _, _)
ReduceBest(opps, k, best) ==
  IF k > Len(opps) THEN best
  ELSE ReduceBest(opps, k + 1, IF opps[k].fundingDiff > best.fundingDiff THEN opps[k] ELSE best)

BestOf(opps) == IF Len(opps) = 0 THEN NoOpp ELSE ReduceBest(opps, 2, opps[1])

\* Strategy1Service.findBestOpportunity
Strategy1FindBest(td, cfg, clk) ==
  IF Len(AvailableExchanges(td)) < 2 THEN NoOpp ELSE BestOf(Opportunities1(td, cfg, clk))

\* Strategy2Service.findBestOpportunity
Strategy2FindBest(td, cfg, clk) ==
  IF Len(AvailableExchanges(td)) < 2 THEN NoOpp ELSE BestOf(Opportunities2(td, cfg, clk))


\* A slip: the comparator is a.fundingDiff - b.fundingDiff.
RECURSIVE InsertByDiffAscending(_, _)
InsertByDiffAscending(x, sorted) ==
  IF sorted = <<>> THEN <<x>>
  ELSE IF Head(sorted).fundingDiff - x.fundingDiff > 0 THEN <<x>> \o sorted
  ELSE <<Head(sorted)>> \o InsertByDiffAscending(x, Tail(sorted))

\* opportunities.sort((a, b) => b.fundingDiff - a.fundingDiff): Array.prototype.sort
\* is stable, so x goes behind every element that does not compare after it.
RECURSIVE InsertByDiff(_, _)
InsertByDiff(x, sorted) ==
  IF sorted = <<>> THEN <<x>>
  ELSE IF x.fundingDiff - Head(sorted).fundingDiff > 0 THEN <<x>> \o sorted
  ELSE <<Head(sorted)>> \o InsertByDiff(x, Tail(sorted))

RECURSIVE SortFrom(_, _, _)
SortFrom(opps, k, sorted) ==
  IF k > Len(opps) THEN sorted ELSE SortFrom(opps, k + 1, InsertByDiff(opps[k], sorted))

SortByDiffDesc(opps) == SortFrom(opps, 1, <<>>)

\* The loop of Strategy1Service.analyzeAllTickers: findBestOpportunity per row,
\* the non-null results pushed in row order.
RECURSIVE Collect1(_, _, _, _)
Collect1(rows, cfg, clk, k) ==
  IF k > Len(rows) THEN <<>>
  ELSE LET opportunity == Strategy1FindBest(rows[k], cfg, clk)
       IN  (IF opportunity # NoOpp THEN <<opportunity>> ELSE <<>>)
           \o Collect1(rows, cfg, clk, k + 1)

\* Strategy1Service.analyzeAllTickers
Strategy1AnalyzeAll(rows, cfg, clk) == SortByDiffDesc(Collect1(rows, cfg, clk, 1))

RECURSIVE Collect2(_, _, _, _)
Collect2(rows, cfg, clk, k) ==
  IF k > Len(rows) THEN <<>>
  ELSE LET opportunity == Strategy2FindBest(rows[k], cfg, clk)
       IN  (IF opportunity # NoOpp THEN <<opportunity>> ELSE <<>>)
           \o Collect2(rows, cfg, clk, k + 1)

\* Strategy2Service.analyzeAllTickers
Strategy2AnalyzeAll(rows, cfg, clk) == SortByDiffDesc(Collect2(rows, cfg, clk, 1))

----------------------------------------------------------------------------
(* Commissions and the allocator *)

\* A slip: the rebate of bitmex entered as a fee of 0.1%.
EXCHANGE_FEES_RebateAsFee ==
  [binance |-> [maker |-> 20, taker |-> 40],
   bybit   |-> [maker |-> 20, taker |-> 55],
   bitget  |-> [maker |-> 20, taker |-> 60],
   bingx   |-> [maker |-> 20, taker |-> 50],
   bitmex  |-> [maker |-> 100, taker |-> 75],
   okx     |-> [maker |-> 20, taker |-> 50]]

\* EXCHANGE_FEES, in units of 0.00001; mexc has no entry.
EXCHANGE_FEES ==
  [binance |-> [maker |-> 20, taker |-> 40],
   bybit   |-> [maker |-> 20, taker |-> 55],
   bitget  |-> [maker |-> 20, taker |-> 60],
   bingx   |-> [maker |-> 20, taker |-> 50],
   bitmex  |-> [maker |-> -10, taker |-> 75],
   okx     |-> [maker |-> 20, taker |-> 50]]

\* StrategyAllocatorService.POSITION_SIZE
POSITION_SIZE == 1000

\* A slip: a maker rate that is not positive is taken for a missing entry.
CommissionThrowsOnRebate(longExchange, shortExchange) ==
  \/ longExchange \notin DOMAIN EXCHANGE_FEES
  \/ shortExchange \notin DOMAIN EXCHANGE_FEES
  \/ EXCHANGE_FEES[longExchange].maker <= 0
  \/ EXCHANGE_FEES[shortExchange].maker <= 0

\* if (!longFees || !shortFees) throw
CommissionThrows(longExchange, shortExchange) ==
  longExchange \notin DOMAIN EXCHANGE_FEES \/ shortExchange \notin DOMAIN EXCHANGE_FEES

\* A slip: with limit entries the exits are charged the maker rate too.
CalculateCommissionsMakerExit(longExchange, shortExchange, positionSize, useLimit) ==
  LET longFees == EXCHANGE_FEES[longExchange]
      shortFees == EXCHANGE_FEES[shortExchange]
      entryCommissionLong == positionSize * (IF useLimit THEN longFees.maker ELSE longFees.taker)
      entryCommissionShort == positionSize * (IF useLimit THEN shortFees.maker ELSE shortFees.taker)
      exitCommissionLong == positionSize * (IF useLimit THEN longFees.maker ELSE longFees.taker)
      exitCommissionShort == positionSize * (IF useLimit THEN shortFees.maker ELSE shortFees.taker)
  IN  [entryCommissionLong |-> entryCommissionLong,
       entryCommissionShort |-> entryCommissionShort,
       exitCommissionLong |-> exitCommissionLong,
       exitCommissionShort |-> exitCommissionShort,
       totalCommission |-> entryCommissionLong + entryCommissionShort
                           + exitCommissionLong + exitCommissionShort,
       commissionType |-> IF useLimit THEN "limit_market" ELSE "all_market"]

\* CommissionService.calculateCommissions, for venues it has fees for.
CalculateCommissions(longExchange, shortExchange, positionSize, useLimit) ==
  LET longFees == EXCHANGE_FEES[longExchange]
      shortFees == EXCHANGE_FEES[shortExchange]
      entryCommissionLong == positionSize * (IF useLimit THEN longFees.maker ELSE longFees.taker)
      entryCommissionShort == positionSize * (IF useLimit THEN shortFees.maker ELSE shortFees.taker)
      exitCommissionLong == positionSize * longFees.taker
      exitCommissionShort == positionSize * shortFees.taker
  IN  [entryCommissionLong |-> entryCommissionLong,
       entryCommissionShort |-> entryCommissionShort,
       exitCommissionLong |-> exitCommissionLong,
       exitCommissionShort |-> exitCommissionShort,
       totalCommission |-> entryCommissionLong + entryCommissionShort
                           + exitCommissionLong + exitCommissionShort,
       commissionType |-> IF useLimit THEN "limit_market" ELSE "all_market"]

\* The calls of calculateCommissions one calculateNetProfit makes: the
\* all-market quote, then the limit+market quote; the first one throws when a
\* venue has no fees, and the second is then never made.
QuoteCalls(opportunity) ==
  LET call(useLimit) == [longExchange |-> opportunity.longExchange,
                         shortExchange |-> opportunity.shortExchange,
                         positionSize |-> POSITION_SIZE, useLimit |-> useLimit]
  IN  IF CommissionThrows(opportunity.longExchange, opportunity.shortExchange)
        THEN <<call(FALSE)>>
        ELSE <<call(FALSE), call(TRUE)>>

\* A slip: the candidate is always netted against the all-market quote.
CalculateNetProfitAllMarket(opportunity) ==
  LET grossProfit == opportunity.fundingDiff * POSITION_SIZE
      marketCommissions == CalculateCommissions(opportunity.longExchange,
                             opportunity.shortExchange, POSITION_SIZE, FALSE)
  IN  [opportunity |-> opportunity,
       grossProfit |-> grossProfit,
       totalCommissions |-> marketCommissions.totalCommission,
       netProfit |-> grossProfit - marketCommissions.totalCommission,
       commissionType |-> marketCommissions.commissionType]

\* A slip: the dearer of the two quotes is taken for the best.
CalculateNetProfitDearest(opportunity) ==
  LET grossProfit == opportunity.fundingDiff * POSITION_SIZE
      marketCommissions == CalculateCommissions(opportunity.longExchange,
                             opportunity.shortExchange, POSITION_SIZE, FALSE)
      limitMarketCommissions == CalculateCommissions(opportunity.longExchange,
                                  opportunity.shortExchange, POSITION_SIZE, TRUE)
      bestCommissions == IF limitMarketCommissions.totalCommission > marketCommissions.totalCommission
                           THEN limitMarketCommissions ELSE marketCommissions
  IN  [opportunity |-> opportunity,
       grossProfit |-> grossProfit,
       totalCommissions |-> bestCommissions.totalCommission,
       netProfit |-> grossProfit - bestCommissions.totalCommission,
       commissionType |-> bestCommissions.commissionType]

\* StrategyAllocatorService.calculateNetProfit, when no quote throws.
CalculateNetProfit(opportunity) ==
  LET grossProfit == opportunity.fundingDiff * POSITION_SIZE
      marketCommissions == CalculateCommissions(opportunity.longExchange,
                             opportunity.shortExchange, POSITION_SIZE, FALSE)
      limitMarketCommissions == CalculateCommissions(opportunity.longExchange,
                                  opportunity.shortExchange, POSITION_SIZE, TRUE)
      bestCommissions == IF limitMarketCommissions.totalCommission < marketCommissions.totalCommission
                           THEN limitMarketCommissions ELSE marketCommissions
  IN  [opportunity |-> opportunity,
       grossProfit |-> grossProfit,
       totalCommissions |-> bestCommissions.totalCommission,
       netProfit |-> grossProfit - bestCommissions.totalCommission,
       commissionType |-> bestCommissions.commissionType]

\* StrategyDecision; reason names the branch that wrote the reason text.
Decision(action, selected, reason, gross, commissions, net, size) ==
  [action |-> action, selectedOpportunities |-> selected, reason |-> reason,
   totalPotentialProfit |-> gross, totalCommissions |-> commissions,
   netProfit |-> net, positionSize |-> size]

NoDecision == Decision("none", <<>>, "", 0, 0, 0, 0)

\* The outcome of a call: the decision returned, or threw = TRUE when a
\* commission quote threw; quotes lists the calls of calculateCommissions made.
Returned(decision, quotes) == [threw |-> FALSE, decision |-> decision, quotes |-> quotes]

Thrown(quotes) == [threw |-> TRUE, decision |-> NoDecision, quotes |-> quotes]

\* No call of the allocator has been made.
NoAllocation == [threw |-> FALSE, decision |-> NoDecision, quotes |-> <<>>]

\* allocateStrategy past its first test: the best of each list is netted
\* (Strategy 1's first), then one of the branches returns.
AllocateCandidates(s1opps, s2opps) ==
  LET has1 == Len(s1opps) > 0
      has2 == Len(s2opps) > 0
      quotes1 == IF has1 THEN QuoteCalls(s1opps[1]) ELSE <<>>
      threw1 == has1 /\ CommissionThrows(s1opps[1].longExchange, s1opps[1].shortExchange)
      quotes2 == IF has2 THEN QuoteCalls(s2opps[1]) ELSE <<>>
      threw2 == has2 /\ CommissionThrows(s2opps[1].longExchange, s2opps[1].shortExchange)
      quotes == quotes1 \o quotes2
  IN  IF threw1 THEN Thrown(quotes1)
      ELSE IF threw2 THEN Thrown(quotes)
      ELSE IF has1 /\ ~has2 THEN
        LET bestStrategy1 == CalculateNetProfit(s1opps[1])
        IN  Returned(Decision("enter_strategy1", <<bestStrategy1.opportunity>>, "only_strategy1",
                       bestStrategy1.grossProfit, bestStrategy1.totalCommissions,
                       bestStrategy1.netProfit, POSITION_SIZE), quotes)
      ELSE IF has2 /\ ~has1 THEN
        LET bestStrategy2 == CalculateNetProfit(s2opps[1])
        IN  Returned(Decision("enter_strategy2", <<bestStrategy2.opportunity>>, "only_strategy2",
                       bestStrategy2.grossProfit, bestStrategy2.totalCommissions,
                       bestStrategy2.netProfit, POSITION_SIZE), quotes)
      ELSE IF has1 /\ has2 THEN
        LET bestStrategy1 == CalculateNetProfit(s1opps[1])
            bestStrategy2 == CalculateNetProfit(s2opps[1])
        IN  IF bestStrategy1.opportunity.ticker # bestStrategy2.opportunity.ticker THEN
              Returned(Decision("enter_both",
                         <<bestStrategy1.opportunity, bestStrategy2.opportunity>>,
                         "different_tickers",
                         bestStrategy1.grossProfit + bestStrategy2.grossProfit,
                         bestStrategy1.totalCommissions + bestStrategy2.totalCommissions,
                         bestStrategy1.netProfit + bestStrategy2.netProfit,
                         POSITION_SIZE * 2), quotes)
            ELSE IF bestStrategy1.netProfit >= bestStrategy2.netProfit THEN
              Returned(Decision("enter_strategy1", <<bestStrategy1.opportunity>>,
                         "strategy1_better",
                         bestStrategy1.grossProfit, bestStrategy1.totalCommissions,
                         bestStrategy1.netProfit, POSITION_SIZE), quotes)
            ELSE
              Returned(Decision("enter_strategy2", <<bestStrategy2.opportunity>>,
                         "strategy2_better",
                         bestStrategy2.grossProfit, bestStrategy2.totalCommissions,
                         bestStrategy2.netProfit, POSITION_SIZE), quotes)
      ELSE Returned(Decision("skip", <<>>, "fallback", 0, 0, 0, POSITION_SIZE), quotes)

\* A slip: the best candidates are netted before the lists are tested for
\* emptiness, and netting a missing candidate throws.
AllocateStrategyUnguarded(s1opps, s2opps) ==
  IF Len(s1opps) = 0 \/ Len(s2opps) = 0 THEN Thrown(<<>>)
  ELSE AllocateCandidates(s1opps, s2opps)

\* A slip: the candidate taken from each list is its last element.
AllocateStrategyLastRanked(s1opps, s2opps) ==
  IF Len(s1opps) = 0 /\ Len(s2opps) = 0
    THEN Returned(Decision("skip", <<>>, "no_opportunities", 0, 0, 0, POSITION_SIZE), <<>>)
    ELSE AllocateCandidates(IF Len(s1opps) = 0 THEN <<>> ELSE <<s1opps[Len(s1opps)]>>,
                            IF Len(s2opps) = 0 THEN <<>> ELSE <<s2opps[Len(s2opps)]>>)

\* A slip: a decision that nets a loss is turned into a skip.
AllocateStrategyProfitFloor(s1opps, s2opps) ==
  IF Len(s1opps) = 0 /\ Len(s2opps) = 0
    THEN Returned(Decision("skip", <<>>, "no_opportunities", 0, 0, 0, POSITION_SIZE), <<>>)
    ELSE LET allocated == AllocateCandidates(s1opps, s2opps)
         IN  IF ~allocated.threw /\ allocated.decision.netProfit < 0
               THEN Returned(Decision("skip", <<>>, "fallback", 0, 0, 0, POSITION_SIZE),
                             allocated.quotes)
               ELSE allocated

\* StrategyAllocatorService.allocateStrategy
AllocateStrategy(s1opps, s2opps) ==
  IF Len(s1opps) = 0 /\ Len(s2opps) = 0
    THEN Returned(Decision("skip", <<>>, "no_opportunities", 0, 0, 0, POSITION_SIZE), <<>>)
    ELSE AllocateCandidates(s1opps, s2opps)

----------------------------------------------------------------------------
(* Inputs *)

\* The venues that carry entries in the snapshots one call is tried on.
QuotedVenues == {"binance", "bitget", "mexc", "bitmex"}

\* The quotes a venue can carry: rates on both sides of 0 and of the rate
\* thresholds, payouts 0, 5, 30 and 35 minutes apart, before and after the
\* lead-time window.
Quotes == {Quote(-400, 4), Quote(100, 4), Quote(250, 9), Quote(250, 39)}

\* An entry whose fundingRate is null, and one whose nextFundingTime is 0.
NullRateEntry == [present |-> TRUE, rateKnown |-> FALSE, fundingRate |-> 0, nextFundingTime |-> 9]

ZeroTimeEntry == Quote(-400, 0)

Entries == Quotes \cup {NullRateEntry, ZeroTimeEntry}

FindRows ==
  {Row("XUSDT", f) :
     f \in UNION {[S -> Entries] : S \in {X \in SUBSET QuotedVenues : Cardinality(X) <= MaxPresent}}}

\* The example of the specification: P pays in 10 minutes at -0.0040, Q in 11
\* minutes at +0.0010.
ExampleRow == Row("XUSDT", [binance |-> Quote(-400, 10), bybit |-> Quote(100, 11)])

\* The config argument of a call: nothing, or some fields.
NoOverride == [f \in {} |-> 0]

Overrides1 ==
  {NoOverride,
   [minFundingDiff |-> 0, maxTimeDiff |-> 35, minTimeToFunding |-> 4, maxTimeToFunding |-> 9]}

Overrides2 == {NoOverride, [minTimeDiff |-> 5, minAbsFundingRate |-> 100, minTimeToFunding |-> 3]}

\* The most pairs one call on a row of FindRows visits.
MaxReads == (MaxPresent * (MaxPresent - 1)) \div 2

\* The clocks a call started at minute t can read.
Clocks(t) == [at : {t}, adv : 1..(MaxReads + 1)]

\* A clock that stays at t for the whole call.
SteadyAt(t) == [at |-> t, adv |-> Len(PairOrder(Len(Exchanges))) + 1]

TickerNames == <<"AUSDT", "BUSDT", "CUSDT", "DUSDT">>

\* The rows of a fetched table: three venues, each absent or with one of a few entries.
ScanEntries ==
  {[bybit |-> a, bitget |-> b, bitmex |-> c] :
     a \in {NoData, Quote(-400, 4)},
     b \in {NoData, Quote(100, 4), Quote(250, 4)},
     c \in {NoData, Quote(250, 34), Quote(-400, 34)}}

\* The tables the scans are run on; on an empty table analyzeStrategies
\* returns before the scans.
ScanTables ==
  {[i \in DOMAIN es |-> Row(TickerNames[i], es[i])] :
     es \in UNION {[1..n -> ScanEntries] : n \in 1..MaxTickers}}

----------------------------------------------------------------------------
(* One call of findBestOpportunity on one snapshot row *)

NoCall == [op |-> "none"]

\* No tick has run: tick n of the model has made this many fetches, ended
\* with outcome, appended this many decisions, and found the fields as in
\* before when it started.
NoTick ==
  [n |-> 0, start |-> 0, fetches |-> 0, outcome |-> "none", appended |-> 0,
   sheet |-> "none", before |-> <<>>, calls |-> <<>>]

\* Nothing has become of any check: the ids returned, those returned by calls that stored
\* nothing, the ids cancelled while their timer was pending, the ids whose
\* check has run to its end, and the numbers of calls made.
NoGhost ==
  [arms |-> 0, cancels |-> 0, ids |-> {}, late |-> {}, cancelled |-> {}, completed |-> {},
   pushed |-> <<>>]

\* The services as constructed: empty history, nothing monitored.
InitServices ==
  /\ decisions = <<>>
  /\ activeMonitoring = {}
  /\ timers = {}
  /\ stabilityChecks = <<>>
  /\ tick = NoTick
  /\ timeouts = 0
  /\ fires = {}
  /\ ghost = NoGhost

Init ==
  /\ InitServices
  /\ \/ tickerData \in FindRows
     \/ tickerData = ExampleRow
  /\ now = 0
  /\ last = NoCall
  /\ spreadsData = <<>>
  /\ pc = "idle"
  /\ strategy1Opportunities = <<>>
  /\ strategy2Opportunities = <<>>
  /\ allocation = NoAllocation

\* strategy1Service.findBestOpportunity(tickerData, config) while the clock reads clk
FindBest1(config, clk) ==
  LET cfg == MergeConfig(DefaultConfig1, config)
  IN  /\ last = NoCall
      /\ last' = [op |-> "strategy1", cfg |-> cfg, clk |-> clk,
                  opportunities |-> Opportunities1(tickerData, cfg, clk),
                  result |-> Strategy1FindBest(tickerData, cfg, clk), threw |-> FALSE]
      /\ UNCHANGED <<tickerData, spreadsData, now, pc,
                     strategy1Opportunities, strategy2Opportunities, allocation>>
      /\ UNCHANGED serviceVars

\* strategy2Service.findBestOpportunity(tickerData, config) while the clock reads clk
FindBest2(config, clk) ==
  LET cfg == MergeConfig(DefaultConfig2, config)
  IN  /\ last = NoCall
      /\ last' = [op |-> "strategy2", cfg |-> cfg, clk |-> clk,
                  opportunities |-> Opportunities2(tickerData, cfg, clk),
                  result |-> Strategy2FindBest(tickerData, cfg, clk), threw |-> FALSE]
      /\ UNCHANGED <<tickerData, spreadsData, now, pc,
                     strategy1Opportunities, strategy2Opportunities, allocation>>
      /\ UNCHANGED serviceVars

Next ==
  \/ \E config \in Overrides1, clk \in Clocks(now) : FindBest1(config, clk)
  \/ \E config \in Overrides2, clk \in Clocks(now) : FindBest2(config, clk)

Spec == Init /\ [][Next]_vars

----------------------------------------------------------------------------
(* The analysis of one fetched table: both scans, then the allocator *)

InitScan ==
  /\ InitServices
  /\ spreadsData \in ScanTables
  /\ now \in {0, 1}
  /\ pc = "fetched"
  /\ strategy1Opportunities = <<>>
  /\ strategy2Opportunities = <<>>
  /\ allocation = NoAllocation
  /\ tickerData = Row("", NoOverride)
  /\ last = NoCall

\* strategy1Service.analyzeAllTickers(spreadsData, config)
AnalyzeAll1(config) ==
  /\ pc = "fetched"
  /\ strategy1Opportunities' =
       Strategy1AnalyzeAll(spreadsData, MergeConfig(DefaultConfig1, config), SteadyAt(now))
  /\ last' = [op |-> "analyzeAll1", cfg |-> MergeConfig(DefaultConfig1, config)]
  /\ pc' = "scanned1"
  /\ UNCHANGED <<tickerData, spreadsData, now, strategy2Opportunities, allocation>>
  /\ UNCHANGED serviceVars

\* strategy2Service.analyzeAllTickers(spreadsData, config)
AnalyzeAll2(config) ==
  /\ pc = "scanned1"
  /\ strategy2Opportunities' =
       Strategy2AnalyzeAll(spreadsData, MergeConfig(DefaultConfig2, config), SteadyAt(now))
  /\ last' = [op |-> "analyzeAll2", cfg1 |-> last.cfg, cfg |-> MergeConfig(DefaultConfig2, config)]
  /\ pc' = "scanned2"
  /\ UNCHANGED <<tickerData, spreadsData, now, strategy1Opportunities, allocation>>
  /\ UNCHANGED serviceVars

\* strategyAllocator.allocateStrategy(strategy1Opportunities, strategy2Opportunities)
Allocate ==
  /\ pc = "scanned2"
  /\ allocation' = AllocateStrategy(strategy1Opportunities, strategy2Opportunities)
  /\ pc' = "decided"
  /\ UNCHANGED <<tickerData, last, spreadsData, now,
                 strategy1Opportunities, strategy2Opportunities>>
  /\ UNCHANGED serviceVars

NextScan ==
  \/ \E config \in Overrides1 : AnalyzeAll1(config)
  \/ \E config \in Overrides2 : AnalyzeAll2(config)
  \/ Allocate

SpecScan == InitScan /\ [][NextScan]_vars

----------------------------------------------------------------------------
(* One call of the allocator on two lists as the scans return them *)

\* An Opportunity as Strategy 1 builds it: fundingDiff is the gap of the rates.
Candidate1(ticker, long, short, longRate, shortRate) ==
  [ticker |-> ticker, longExchange |-> long, shortExchange |-> short,
   longFundingRate |-> longRate, shortFundingRate |-> shortRate,
   fundingDiff |-> Abs(longRate - shortRate),
   nextFundingTime |-> 4, timeToFunding |-> 4, strategy |-> "rate_arbitrage"]

\* An Opportunity as Strategy 2 builds it: fundingDiff is the sum of the
\* absolute rates.
Candidate2(ticker, first, second, firstRate, secondRate) ==
  [ticker |-> ticker, longExchange |-> first, shortExchange |-> second,
   longFundingRate |-> firstRate, shortFundingRate |-> secondRate,
   fundingDiff |-> Abs(firstRate) + Abs(secondRate),
   nextFundingTime |-> 4, timeToFunding |-> 4, strategy |-> "timing_arbitrage"]

\* The tickers of the lists given to the allocator.
AllocTickers == {TickerNames[i] : i \in 1..MaxTickers}

\* What Strategy 1 can have found on a ticker: a pair that nets 3.70 $, a
\* pair at the minimum gap that nets less than its commissions, a pair
\* with a leg on mexc, and a pair with the maker rebate of bitmex.
Candidates1 ==
  UNION {{Candidate1(t, "binance", "bingx", -250, 250),
          Candidate1(t, "bybit", "bitget", 100, 250),
          Candidate1(t, "mexc", "binance", -400, 100),
          Candidate1(t, "bitmex", "bingx", -100, 250)} : t \in AllocTickers}

\* What Strategy 2 can have found on a ticker: pairs that net 3.70 $, 5.05 $
\* and 2.70 $, and a pair with a leg on mexc.
Candidates2 ==
  UNION {{Candidate2(t, "binance", "okx", -250, 250),
          Candidate2(t, "bitget", "bitmex", -400, 250),
          Candidate2(t, "binance", "okx", -200, 200),
          Candidate2(t, "okx", "mexc", 250, -400)} : t \in AllocTickers}

\* The lists a scan can return from these: at most one Opportunity per
\* ticker, in an order of non-increasing fundingDiff.
ScanLists(candidates) ==
  {l \in UNION {[1..n -> candidates] : n \in 0..MaxTickers} :
     /\ \A i, j \in DOMAIN l : i < j => l[i].ticker # l[j].ticker
     /\ \A i, j \in DOMAIN l : i < j => l[i].fundingDiff >= l[j].fundingDiff}

InitAlloc ==
  /\ InitServices
  /\ strategy1Opportunities \in ScanLists(Candidates1)
  /\ strategy2Opportunities \in ScanLists(Candidates2)
  /\ pc = "scanned2"
  /\ spreadsData = <<>>
  /\ now = 0
  /\ allocation = NoAllocation
  /\ tickerData = Row("", NoOverride)
  /\ last = NoCall

NextAlloc == Allocate

SpecAlloc == InitAlloc /\ [][NextAlloc]_vars

----------------------------------------------------------------------------
(* One call of the commission calculator *)

\* The notionals a quote is asked for.
PositionSizes == {0, 1, POSITION_SIZE}

\* No breakdown: the call threw.
NoCommission ==
  [entryCommissionLong |-> 0, entryCommissionShort |-> 0,
   exitCommissionLong |-> 0, exitCommissionShort |-> 0,
   totalCommission |-> 0, commissionType |-> "none"]

InitQuote ==
  /\ InitServices
  /\ last = NoCall
  /\ pc = "idle"
  /\ spreadsData = <<>>
  /\ now = 0
  /\ strategy1Opportunities = <<>>
  /\ strategy2Opportunities = <<>>
  /\ allocation = NoAllocation
  /\ tickerData = Row("", NoOverride)

\* commissionService.calculateCommissions(longExchange, shortExchange, positionSize, useLimit)
QuoteCommissions(longExchange, shortExchange, positionSize, useLimit) ==
  /\ last = NoCall
  /\ last' = [op |-> "calculateCommissions",
              longExchange |-> longExchange, shortExchange |-> shortExchange,
              positionSize |-> positionSize, useLimit |-> useLimit,
              threw |-> CommissionThrows(longExchange, shortExchange),
              commission |-> IF CommissionThrows(longExchange, shortExchange)
                               THEN NoCommission
                               ELSE CalculateCommissions(longExchange, shortExchange,
                                                         positionSize, useLimit)]
  /\ UNCHANGED <<tickerData, spreadsData, now, pc,
                 strategy1Opportunities, strategy2Opportunities, allocation>>
  /\ UNCHANGED serviceVars

\* commissionService.compareCommissionTypes(longExchange, shortExchange, positionSize):
\* the all-market quote, then the limit+market quote, and their difference.
CompareCommissionTypes(longExchange, shortExchange, positionSize) ==
  /\ last = NoCall
  /\ last' = IF CommissionThrows(longExchange, shortExchange)
               THEN [op |-> "compareCommissionTypes",
                     longExchange |-> longExchange, shortExchange |-> shortExchange,
                     positionSize |-> positionSize, threw |-> TRUE,
                     market |-> NoCommission, limitMarket |-> NoCommission, savings |-> 0]
               ELSE LET marketCommission ==
                          CalculateCommissions(longExchange, shortExchange, positionSize, FALSE)
                        limitMarketCommission ==
                          CalculateCommissions(longExchange, shortExchange, positionSize, TRUE)
                    IN  [op |-> "compareCommissionTypes",
                         longExchange |-> longExchange, shortExchange |-> shortExchange,
                         positionSize |-> positionSize, threw |-> FALSE,
                         market |-> marketCommission, limitMarket |-> limitMarketCommission,
                         savings |-> marketCommission.totalCommission
                                     - limitMarketCommission.totalCommission]
  /\ UNCHANGED <<tickerData, spreadsData, now, pc,
                 strategy1Opportunities, strategy2Opportunities, allocation>>
  /\ UNCHANGED serviceVars

NextQuote ==
  \/ \E longExchange \in ExchangeSet, shortExchange \in ExchangeSet,
        positionSize \in PositionSizes, useLimit \in BOOLEAN :
       QuoteCommissions(longExchange, shortExchange, positionSize, useLimit)
  \/ \E longExchange \in ExchangeSet, shortExchange \in ExchangeSet,
        positionSize \in PositionSizes :
       CompareCommissionTypes(longExchange, shortExchange, positionSize)

SpecQuote == InitQuote /\ [][NextQuote]_vars

----------------------------------------------------------------------------
(* The ticks of the scheduler: analyzeStrategies from the fetch to the     *)
(* trimming of the histories                                               *)

\* At most this many ticks run.
MaxTicks == 2

\* this.decisions.length > 100: the decisions kept.
DECISIONS_KEPT == 100

\* this.stabilityChecks.length > 50: the stability checks kept.
CHECKS_KEPT == 50

\* The cron period of analyzeStrategies, in minutes.
CRON_PERIOD == 2

\* The lead of a check before the payout, in minutes.
CHECK_LEAD == 1

\* positionId: the ticker, the venue and the clock reading.
PositionId(ticker, exchange, nowRead) == <<ticker, exchange, nowRead>>

\* Map.set: the entry with the same key is replaced.
MapSet(map, position) == {q \in map : q.id # position.id} \cup {position}

\* The monitoring service as a call of startPositionMonitoring finds it;
\* calls lists the calls made, returned is the id the last one returned.
Monitoring ==
  [active |-> activeMonitoring, timers |-> timers, timeouts |-> timeouts,
   calls |-> <<>>, returned |-> <<>>]

\* FundingMonitoringService.startPositionMonitoring on the active map and the
\* pending timers; nothing is stored when the check would be due at once.
\* setTimeout returns a handle no earlier call returned.
StartPositionMonitoring(mon, ticker, exchange, originalFundingRate, nextFundingTime, strategy, nowRead) ==
  LET positionId == PositionId(ticker, exchange, nowRead)
      timeToFunding == nextFundingTime - nowRead
      checkTime == timeToFunding - CHECK_LEAD
      timeoutId == mon.timeouts + 1
      position == [id |-> positionId, ticker |-> ticker, exchange |-> exchange,
                   originalFundingRate |-> originalFundingRate,
                   nextFundingTime |-> nextFundingTime, entryTime |-> nowRead,
                   strategy |-> strategy, timeoutId |-> timeoutId]
      call == [ticker |-> ticker, exchange |-> exchange,
               originalFundingRate |-> originalFundingRate,
               nextFundingTime |-> nextFundingTime, strategy |-> strategy]
  IN  IF checkTime <= 0
        THEN [mon EXCEPT !.calls = Append(@, call), !.returned = positionId]
        ELSE [active |-> MapSet(mon.active, position),
              timers |-> mon.timers \cup {[timeoutId |-> timeoutId, id |-> positionId,
                                           fireAt |-> nowRead + checkTime]},
              timeouts |-> timeoutId,
              calls |-> Append(mon.calls, call),
              returned |-> positionId]

\* A slip: only the long leg of a rate arbitrage is monitored.
SimulateTradeEntryLongOnly(mon, opportunity, nowRead) ==
  IF opportunity.strategy \in {"rate_arbitrage", "timing_arbitrage"} THEN
    StartPositionMonitoring(mon, opportunity.ticker, opportunity.longExchange,
                            opportunity.longFundingRate, opportunity.nextFundingTime,
                            opportunity.strategy, nowRead)
  ELSE mon

\* StrategySchedulerService.simulateTradeEntry: both legs of a rate
\* arbitrage are monitored, the first leg of a timing arbitrage.
SimulateTradeEntry(mon, opportunity, nowRead) ==
  IF opportunity.strategy = "rate_arbitrage" THEN
    StartPositionMonitoring(
      StartPositionMonitoring(mon, opportunity.ticker, opportunity.longExchange,
                              opportunity.longFundingRate, opportunity.nextFundingTime,
                              "rate_arbitrage", nowRead),
      opportunity.ticker, opportunity.shortExchange, opportunity.shortFundingRate,
      opportunity.nextFundingTime, "rate_arbitrage", nowRead)
  ELSE IF opportunity.strategy = "timing_arbitrage" THEN
    StartPositionMonitoring(mon, opportunity.ticker, opportunity.longExchange,
                            opportunity.longFundingRate, opportunity.nextFundingTime,
                            "timing_arbitrage", nowRead)
  ELSE mon

\* decision.selectedOpportunities.forEach(simulateTradeEntry), from position i on.
RECURSIVE SimulateEach(_, _, _, _)
SimulateEach(mon, selected, i, nowRead) ==
  IF i > Len(selected) THEN mon
  ELSE SimulateEach(SimulateTradeEntry(mon, selected[i], nowRead), selected, i + 1, nowRead)

\* StrategySchedulerService.executeDecision
ExecuteDecision(mon, decision, nowRead) ==
  IF decision.action \in {"enter_strategy1", "enter_strategy2"}
    THEN SimulateTradeEntry(mon, decision.selectedOpportunities[1], nowRead)
  ELSE IF decision.action = "enter_both"
    THEN SimulateEach(mon, decision.selectedOpportunities, 1, nowRead)
  ELSE mon

\* A slip: slice(0, n), which keeps the oldest.
KeepLastOldest(seq, n) == IF Len(seq) > n THEN SubSeq(seq, 1, n) ELSE seq

\* array.slice(-n) when the array is longer than n.
KeepLast(seq, n) == IF Len(seq) > n THEN SubSeq(seq, Len(seq) - n + 1, Len(seq)) ELSE seq

\* SpreadDataService.fetchSpreadsData: the table of the response, or an
\* Error thrown when the request failed; one request, no second attempt.
FetchSpreadsData(response) ==
  IF response.ok THEN [threw |-> FALSE, data |-> response.data, requests |-> 1]
  ELSE [threw |-> TRUE, data |-> <<>>, requests |-> 1]

\* A slip: the test for an empty table is missing, and the tick goes on.
AfterFetchEmptyGoesOn(fetched) ==
  IF fetched.threw THEN "done" ELSE "fetched"

\* A slip: a failed fetch is not caught around the whole tick, which goes on
\* with an empty table.
AfterFetchFailureGoesOn(fetched) ==
  IF ~fetched.threw /\ Len(fetched.data) = 0 THEN "done" ELSE "fetched"

\* analyzeStrategies after the fetch: a throw is caught at the end of the
\* method, an empty table returns, otherwise the scans follow.
AfterFetch(fetched) ==
  IF fetched.threw THEN "done"
  ELSE IF Len(fetched.data) = 0 THEN "done"
  ELSE "fetched"

\* The rows of the tables a tick fetches: a rate-arbitrage pair on venues
\* with fees, one with the long leg on mexc, a timing-arbitrage pair on
\* venues with fees, one with the second leg on mexc, and a row without a
\* pair.
TickRowRate(ticker) == Row(ticker, [binance |-> Quote(-250, 6), bingx |-> Quote(250, 6)])

TickRowRateMexc(ticker) == Row(ticker, [mexc |-> Quote(-400, 6), binance |-> Quote(100, 6)])

TickRowTiming(ticker) == Row(ticker, [bitget |-> Quote(-400, 6), bitmex |-> Quote(250, 36)])

TickRowTimingMexc(ticker) == Row(ticker, [okx |-> Quote(250, 6), mexc |-> Quote(-400, 36)])

TickRowNone(ticker) == Row(ticker, [bybit |-> Quote(100, 6)])

\* The tables a fetch returns.
TickTables ==
  {<<>>,
   <<TickRowNone(TickerNames[1])>>,
   <<TickRowRate(TickerNames[1])>>,
   <<TickRowTiming(TickerNames[1])>>,
   <<TickRowRate(TickerNames[1]), TickRowTiming(TickerNames[2])>>,
   <<TickRowRateMexc(TickerNames[1]), TickRowTiming(TickerNames[2])>>,
   <<TickRowRate(TickerNames[1]), TickRowTimingMexc(TickerNames[2])>>}

\* The responses of the provider: a table, or a failure of the request.
Responses == {[ok |-> TRUE, data |-> t] : t \in TickTables} \cup {[ok |-> FALSE, data |-> <<>>]}

\* A decision of an earlier tick, and a history of them.
EarlierDecision == Decision("skip", <<>>, "no_opportunities", 0, 0, 0, POSITION_SIZE)

\* A position armed by an earlier tick, with its timer.
EarlierPosition ==
  [id |-> PositionId("DUSDT", "okx", -2), ticker |-> "DUSDT", exchange |-> "okx",
   originalFundingRate |-> -400, nextFundingTime |-> 9, entryTime |-> -2,
   strategy |-> "timing_arbitrage", timeoutId |-> 1]

EarlierTimer ==
  [timeoutId |-> EarlierPosition.timeoutId, id |-> EarlierPosition.id,
   fireAt |-> EarlierPosition.nextFundingTime - CHECK_LEAD]

\* A stability check an earlier firing pushed.
EarlierCheck ==
  [positionId |-> PositionId("DUSDT", "bybit", -8), ticker |-> "DUSDT", exchange |-> "bybit",
   originalFundingRate |-> -400, currentFundingRate |-> -400,
   changePercent |-> [num |-> 0, den |-> 400], isStable |-> TRUE, timeBeforeFunding |-> 1]

\* The fields a tick can change.
ServiceFields ==
  [decisions |-> decisions, activeMonitoring |-> activeMonitoring,
   timers |-> timers, stabilityChecks |-> stabilityChecks]

\* The service starts a tick with empty or full histories (firings between
\* ticks push stability checks without trimming), with or without a
\* position in monitoring.
InitTick ==
  /\ decisions \in {<<>>, [i \in 1..DECISIONS_KEPT |-> EarlierDecision]}
  /\ stabilityChecks \in {<<>>, [i \in 1..(CHECKS_KEPT + 1) |-> EarlierCheck]}
  /\ \/ activeMonitoring = {} /\ timers = {} /\ timeouts = 0
     \/ activeMonitoring = {EarlierPosition} /\ timers = {EarlierTimer} /\ timeouts = 1
  /\ fires = {}
  /\ ghost = NoGhost
  /\ tick = NoTick
  /\ now \in {0, 1}
  /\ pc = "idle"
  /\ spreadsData = <<>>
  /\ strategy1Opportunities = <<>>
  /\ strategy2Opportunities = <<>>
  /\ allocation = NoAllocation
  /\ tickerData = Row("", NoOverride)
  /\ last = NoCall

\* analyzeStrategies up to the end of its first await: the fetch, and what
\* follows from its result.
TickFetch(response) ==
  LET fetched == FetchSpreadsData(response)
  IN  /\ pc = "idle"
      /\ tick.n < MaxTicks
      /\ pc' = AfterFetch(fetched)
      /\ spreadsData' = fetched.data
      /\ last' = [op |-> "fetchSpreadsData", threw |-> fetched.threw]
      /\ tick' = [n |-> tick.n + 1, start |-> now, fetches |-> fetched.requests,
                  outcome |-> IF fetched.threw THEN "fetch_failed"
                              ELSE IF Len(fetched.data) = 0 THEN "no_data"
                              ELSE "running",
                  appended |-> 0, sheet |-> "none", before |-> ServiceFields,
                  calls |-> <<>>]
      /\ strategy1Opportunities' = <<>>
      /\ strategy2Opportunities' = <<>>
      /\ allocation' = NoAllocation
      /\ UNCHANGED <<tickerData, now, decisions, activeMonitoring, timers, stabilityChecks,
                     timeouts, fires, ghost>>

\* The allocator threw: the catch of analyzeStrategies logs the error and
\* the method ends.
CatchError ==
  /\ pc = "decided"
  /\ allocation.threw
  /\ pc' = "done"
  /\ tick' = [tick EXCEPT !.outcome = "error"]
  /\ UNCHANGED <<tickerData, last, spreadsData, now,
                 strategy1Opportunities, strategy2Opportunities, allocation,
                 decisions, activeMonitoring, timers, stabilityChecks,
                 timeouts, fires, ghost>>

\* this.decisions.push(decision), then the call of addTradeToSheet
RecordDecision ==
  /\ pc = "decided"
  /\ ~allocation.threw
  /\ decisions' = Append(decisions, allocation.decision)
  /\ tick' = [tick EXCEPT !.appended = @ + 1]
  /\ pc' = "recorded"
  /\ UNCHANGED <<tickerData, last, spreadsData, now,
                 strategy1Opportunities, strategy2Opportunities, allocation,
                 activeMonitoring, timers, stabilityChecks, timeouts, fires, ghost>>

\* The outcomes of addTradeToSheet: the sheet is not configured, the row is
\* appended, or the append fails and the error is logged; none is thrown.
SheetOutcomes == {"not_configured", "appended", "failed"}

\* The minutes the await of addTradeToSheet can take.
SheetDelays == {0, 2}

\* addTradeToSheet returns after elapsed minutes; then executeDecision, the
\* trimming of the decisions and cleanupOldChecks run to the end of the tick.
PersistAndExecute(sheet, elapsed) ==
  LET nowRead == now + elapsed
      mon == ExecuteDecision(Monitoring, allocation.decision, nowRead)
  IN  /\ pc = "recorded"
      /\ now' = nowRead
      /\ activeMonitoring' = mon.active
      /\ timers' = mon.timers
      /\ timeouts' = mon.timeouts
      /\ decisions' = KeepLast(decisions, DECISIONS_KEPT)
      /\ stabilityChecks' = KeepLast(stabilityChecks, CHECKS_KEPT)
      /\ tick' = [tick EXCEPT !.sheet = sheet, !.outcome = "completed", !.calls = mon.calls]
      /\ pc' = "done"
      /\ UNCHANGED <<tickerData, last, spreadsData,
                     strategy1Opportunities, strategy2Opportunities, allocation,
                     fires, ghost>>

\* The tick is over; the clock reaches the next cron minute.
AwaitCron ==
  /\ pc = "done"
  /\ tick.n < MaxTicks
  /\ pc' = "idle"
  /\ now' = tick.start + CRON_PERIOD
  /\ UNCHANGED <<tickerData, last, spreadsData,
                 strategy1Opportunities, strategy2Opportunities, allocation>>
  /\ UNCHANGED serviceVars

NextTick ==
  \/ \E response \in Responses : TickFetch(response)
  \/ AnalyzeAll1(NoOverride)
  \/ AnalyzeAll2(NoOverride)
  \/ Allocate
  \/ CatchError
  \/ RecordDecision
  \/ \E sheet \in SheetOutcomes, elapsed \in SheetDelays : PersistAndExecute(sheet, elapsed)
  \/ AwaitCron

SpecTick == InitTick /\ [][NextTick]_vars

----------------------------------------------------------------------------
(* Runs of analyzeStrategies that overlap: the cron job and manualAnalysis *)

\* The runs of analyzeStrategies, each started by the cron job or by
\* manualAnalysis at any time, also while another one awaits.
Runs == 1..MaxTicks

\* What the fetch of a run returns: a failure, no row, a row without a
\* pair, pairs on venues with fees, and a pair with a leg on mexc.
OverlapResponses ==
  {[ok |-> FALSE, data |-> <<>>]}
    \cup {[ok |-> TRUE, data |-> t] :
            t \in {<<>>,
                   <<TickRowNone(TickerNames[1])>>,
                   <<TickRowRate(TickerNames[1])>>,
                   <<TickRowRate(TickerNames[1]), TickRowTiming(TickerNames[2])>>,
                   <<TickRowRateMexc(TickerNames[1])>>}}

\* No run has started; the history of decisions is empty or full. The
\* decisions ever pushed are kept in ghost.pushed.
InitOverlap ==
  /\ decisions \in {<<>>, [i \in 1..DECISIONS_KEPT |-> EarlierDecision]}
  /\ ghost = [NoGhost EXCEPT !.pushed = decisions]
  /\ activeMonitoring = {}
  /\ timers = {}
  /\ timeouts = 0
  /\ fires = {}
  /\ stabilityChecks = <<>>
  /\ tick = NoTick
  /\ now = 0
  /\ pc = [r \in Runs |-> "idle"]
  /\ allocation = [r \in Runs |-> NoAllocation]
  /\ spreadsData = <<>>
  /\ strategy1Opportunities = <<>>
  /\ strategy2Opportunities = <<>>
  /\ tickerData = Row("", NoOverride)
  /\ last = NoCall

\* analyzeStrategies is called and awaits its fetch.
OverlapStart(r) ==
  /\ pc[r] = "idle"
  /\ pc' = [pc EXCEPT ![r] = "fetching"]
  /\ UNCHANGED <<tickerData, last, spreadsData, now,
                 strategy1Opportunities, strategy2Opportunities, allocation>>
  /\ UNCHANGED serviceVars

\* The fetch of a run returns or throws; on a table with rows the scans and
\* the allocator run and the decision is pushed, up to the await of
\* addTradeToSheet; an error ends the run in its catch.
OverlapFetched(r, response) ==
  LET fetched == FetchSpreadsData(response)
      s1 == Strategy1AnalyzeAll(fetched.data, DefaultConfig1, SteadyAt(now))
      s2 == Strategy2AnalyzeAll(fetched.data, DefaultConfig2, SteadyAt(now))
      allocated == AllocateStrategy(s1, s2)
  IN  /\ pc[r] = "fetching"
      /\ IF AfterFetch(fetched) = "done" \/ allocated.threw
           THEN /\ pc' = [pc EXCEPT ![r] = "done"]
                /\ UNCHANGED <<decisions, ghost, allocation>>
           ELSE /\ pc' = [pc EXCEPT ![r] = "recorded"]
                /\ decisions' = Append(decisions, allocated.decision)
                /\ ghost' = [ghost EXCEPT !.pushed = Append(@, allocated.decision)]
                /\ allocation' = [allocation EXCEPT ![r] = allocated]
      /\ UNCHANGED <<tickerData, last, spreadsData, now,
                     strategy1Opportunities, strategy2Opportunities,
                     activeMonitoring, timers, stabilityChecks, tick, timeouts, fires>>

\* addTradeToSheet returns to a run; executeDecision, the trimming of the
\* decisions and cleanupOldChecks follow, and the run ends.
OverlapPersisted(r) ==
  LET mon == ExecuteDecision(Monitoring, allocation[r].decision, now)
  IN  /\ pc[r] = "recorded"
      /\ pc' = [pc EXCEPT ![r] = "done"]
      /\ activeMonitoring' = mon.active
      /\ timers' = mon.timers
      /\ timeouts' = mon.timeouts
      /\ decisions' = KeepLast(decisions, DECISIONS_KEPT)
      /\ stabilityChecks' = KeepLast(stabilityChecks, CHECKS_KEPT)
      /\ UNCHANGED <<tickerData, last, spreadsData, now,
                     strategy1Opportunities, strategy2Opportunities, allocation,
                     tick, fires, ghost>>

NextOverlap ==
  \/ \E r \in Runs : OverlapStart(r)
  \/ \E r \in Runs, response \in OverlapResponses : OverlapFetched(r, response)
  \/ \E r \in Runs : OverlapPersisted(r)

SpecOverlap == InitOverlap /\ [][NextOverlap]_vars

----------------------------------------------------------------------------
(* The monitoring service: checks armed, run by their timers, cancelled    *)

\* At most this many calls of startPositionMonitoring are made.
MaxArms == 2

\* The clock reads 0..MaxClock.
MaxClock == 2

\* At most this many calls of cancelPositionMonitoring are made.
MaxCancels == 1

\* changePercent <= 10
STABLE_PERCENT == 10

\* activeMonitoring.get(positionId): the entries under the key, none or one.
MapGet(map, positionId) == {q \in map : q.id = positionId}

\* A slip: the entry under the key stays.
MapDeleteKeepsEntry(map, positionId) == map

\* activeMonitoring.delete(positionId)
MapDelete(map, positionId) == {q \in map : q.id # positionId}

\* FundingMonitoringService.cancelPositionMonitoring: with an entry under the
\* key (its timeoutId is an object, never falsy), clearTimeout and delete;
\* otherwise nothing.
CancelPositionMonitoring(mon, positionId) ==
  IF MapGet(mon.active, positionId) = {} THEN [active |-> mon.active, timers |-> mon.timers]
  ELSE LET position == CHOOSE q \in MapGet(mon.active, positionId) : TRUE
       IN  [active |-> MapDelete(mon.active, positionId),
            timers |-> {t \in mon.timers : t.timeoutId # position.timeoutId}]

\* spreadsData.find(data => data.ticker === ticker): the rows that match,
\* from position i on, the first one first.
RECURSIVE FindTicker(_, _, _)
FindTicker(data, ticker, i) ==
  IF i > Len(data) THEN <<>>
  ELSE IF data[i].ticker = ticker THEN <<data[i]>>
  ELSE FindTicker(data, ticker, i + 1)

\* |current - original| / |original| * 100 as a fraction; den = 0 stands
\* for the Infinity or NaN the division by 0 gives.
ChangePercent(currentFundingRate, originalFundingRate) ==
  [num |-> Abs(currentFundingRate - originalFundingRate) * 100,
   den |-> Abs(originalFundingRate)]

\* A slip: a change of exactly 10 percent is not stable.
IsStableBelow(changePercent) ==
  changePercent.den # 0 /\ changePercent.num < STABLE_PERCENT * changePercent.den

\* changePercent <= 10; neither Infinity nor NaN is.
IsStable(changePercent) ==
  changePercent.den # 0 /\ changePercent.num <= STABLE_PERCENT * changePercent.den

\* A slip: a venue entry without rate is read as a rate of 0.
FireOutcomeNullAsZero(position, fetched) ==
  IF fetched.threw THEN "fetch_failed"
  ELSE IF FindTicker(fetched.data, position.ticker, 1) = <<>> THEN "no_ticker"
  ELSE IF ~FindTicker(fetched.data, position.ticker, 1)[1].data[position.exchange].present
         THEN "no_venue_data"
  ELSE "checked"

\* checkFundingStability after its fetch: the catch, the two early returns,
\* or the comparison.
FireOutcome(position, fetched) ==
  IF fetched.threw THEN "fetch_failed"
  ELSE IF FindTicker(fetched.data, position.ticker, 1) = <<>> THEN "no_ticker"
  ELSE LET exchangeData == FindTicker(fetched.data, position.ticker, 1)[1].data[position.exchange]
       IN  IF ~exchangeData.present \/ ~exchangeData.rateKnown THEN "no_venue_data"
           ELSE "checked"

\* The FundingStabilityCheck of a position against the fetched rate.
StabilityCheck(position, currentFundingRate, nowRead) ==
  [positionId |-> position.id, ticker |-> position.ticker, exchange |-> position.exchange,
   originalFundingRate |-> position.originalFundingRate,
   currentFundingRate |-> currentFundingRate,
   changePercent |-> ChangePercent(currentFundingRate, position.originalFundingRate),
   isStable |-> IsStable(ChangePercent(currentFundingRate, position.originalFundingRate)),
   timeBeforeFunding |-> position.nextFundingTime - nowRead]

\* The calls of startPositionMonitoring made: one ticker on two venues with
\* the payout at minute 3, and on one of them with the payout at minute 1.
ArmRequests ==
  {[ticker |-> "AUSDT", exchange |-> et[1], originalFundingRate |-> -400,
    nextFundingTime |-> et[2], strategy |-> "rate_arbitrage"] :
     et \in {<<"binance", 3>>, <<"binance", 1>>, <<"okx", 3>>}}

\* The ids cancelPositionMonitoring is called with: those a call can have
\* returned, and one no call returned.
CancelIds ==
  {PositionId(r.ticker, r.exchange, t) : r \in ArmRequests, t \in 0..MaxClock}
    \cup {PositionId("CUSDT", "binance", 0)}

\* The entries of both venues in the table a check fetches: the rate
\* changed by 10 percent, changed by more, null, or no entry.
FreshEntries == {Quote(-440, 3), Quote(-441, 3), NullRateEntry, NoData}

\* The responses to the fetch of a check: a failure, a table without the
\* ticker, or a table with it.
FireResponses ==
  {[ok |-> FALSE, data |-> <<>>], [ok |-> TRUE, data |-> <<Row("CUSDT", NoOverride)>>]}
    \cup {[ok |-> TRUE,
           data |-> <<Row("CUSDT", NoOverride),
                      Row("AUSDT", [binance |-> q, okx |-> q])>>] : q \in FreshEntries}

InitMonitor ==
  /\ decisions = <<>>
  /\ activeMonitoring = {}
  /\ timers = {}
  /\ stabilityChecks \in {<<>>, [i \in 1..CHECKS_KEPT |-> EarlierCheck]}
  /\ tick = NoTick
  /\ timeouts = 0
  /\ fires = {}
  /\ ghost = NoGhost
  /\ now = 0
  /\ pc = "idle"
  /\ spreadsData = <<>>
  /\ strategy1Opportunities = <<>>
  /\ strategy2Opportunities = <<>>
  /\ allocation = NoAllocation
  /\ tickerData = Row("", NoOverride)
  /\ last = NoCall

\* What the monitoring actions leave alone.
analysisVars ==
  <<tickerData, spreadsData, pc, strategy1Opportunities, strategy2Opportunities,
    allocation, decisions, tick>>

\* startPositionMonitoring(ticker, exchange, originalFundingRate, nextFundingTime, strategy)
Arm(request) ==
  LET mon == StartPositionMonitoring(Monitoring, request.ticker, request.exchange,
                                     request.originalFundingRate, request.nextFundingTime,
                                     request.strategy, now)
      stored == mon.timeouts # timeouts
  IN  /\ ghost.arms < MaxArms
      /\ activeMonitoring' = mon.active
      /\ timers' = mon.timers
      /\ timeouts' = mon.timeouts
      /\ last' = [op |-> "startPositionMonitoring", id |-> mon.returned, stored |-> stored]
      /\ ghost' = [ghost EXCEPT !.arms = @ + 1,
                                !.ids = @ \cup {mon.returned},
                                !.late = IF stored THEN @ ELSE @ \cup {mon.returned}]
      /\ UNCHANGED <<now, stabilityChecks, fires>>
      /\ UNCHANGED analysisVars

\* The clock moves on.
Advance ==
  /\ now < MaxClock
  /\ now' = now + 1
  /\ last' = [op |-> "advance"]
  /\ UNCHANGED <<activeMonitoring, timers, timeouts, stabilityChecks, fires, ghost>>
  /\ UNCHANGED analysisVars

\* A timer that is due runs its callback: checkFundingStability up to its
\* await of the fetch, or to its return when the key has no entry.
TimerRuns(timer) ==
  /\ timer \in timers
  /\ timer.fireAt <= now
  /\ timers' = timers \ {timer}
  /\ IF MapGet(activeMonitoring, timer.id) = {}
       THEN /\ fires' = fires
            /\ last' = [op |-> "checkFundingStability", id |-> timer.id,
                        timeoutId |-> timer.timeoutId, outcome |-> "not_found"]
       ELSE /\ fires' = fires \cup
                  {[timeoutId |-> timer.timeoutId, id |-> timer.id,
                    position |-> CHOOSE q \in MapGet(activeMonitoring, timer.id) : TRUE,
                    stage |-> "fetching"]}
            /\ last' = [op |-> "checkFundingStability", id |-> timer.id,
                        timeoutId |-> timer.timeoutId, outcome |-> "fetching"]
  /\ UNCHANGED <<now, activeMonitoring, timeouts, stabilityChecks, ghost>>
  /\ UNCHANGED analysisVars

\* The fetch of a running check returns or throws: the check is deleted, or
\* its result is pushed and addStabilityCheckToSheet awaited.
FetchReturns(fire, response) ==
  LET fetched == FetchSpreadsData(response)
      outcome == FireOutcome(fire.position, fetched)
  IN  /\ fire \in fires
      /\ fire.stage = "fetching"
      /\ last' = [op |-> "fetchReturns", id |-> fire.id, timeoutId |-> fire.timeoutId,
                  position |-> fire.position, threw |-> fetched.threw,
                  data |-> fetched.data, outcome |-> outcome]
      /\ IF outcome = "checked"
           THEN /\ stabilityChecks' =
                     Append(stabilityChecks,
                            StabilityCheck(fire.position,
                              FindTicker(fetched.data, fire.position.ticker, 1)[1]
                                .data[fire.position.exchange].fundingRate,
                              now))
                /\ fires' = (fires \ {fire}) \cup {[fire EXCEPT !.stage = "persisting"]}
                /\ UNCHANGED <<activeMonitoring, ghost>>
           ELSE /\ activeMonitoring' = MapDelete(activeMonitoring, fire.id)
                /\ fires' = fires \ {fire}
                /\ ghost' = [ghost EXCEPT !.completed = @ \cup {fire.id}]
                /\ UNCHANGED stabilityChecks
      /\ UNCHANGED <<now, timers, timeouts>>
      /\ UNCHANGED analysisVars

\* addStabilityCheckToSheet returns (it throws nothing); the check is deleted.
SheetReturns(fire) ==
  /\ fire \in fires
  /\ fire.stage = "persisting"
  /\ activeMonitoring' = MapDelete(activeMonitoring, fire.id)
  /\ fires' = fires \ {fire}
  /\ ghost' = [ghost EXCEPT !.completed = @ \cup {fire.id}]
  /\ last' = [op |-> "sheetReturns", id |-> fire.id, timeoutId |-> fire.timeoutId]
  /\ UNCHANGED <<now, timers, timeouts, stabilityChecks>>
  /\ UNCHANGED analysisVars

\* cancelPositionMonitoring(positionId)
Cancel(positionId) ==
  LET mon == CancelPositionMonitoring([active |-> activeMonitoring, timers |-> timers],
                                      positionId)
      found == MapGet(activeMonitoring, positionId) # {}
      pending == \E q \in MapGet(activeMonitoring, positionId) :
                   \E t \in timers : t.timeoutId = q.timeoutId
  IN  /\ ghost.cancels < MaxCancels
      /\ activeMonitoring' = mon.active
      /\ timers' = mon.timers
      /\ last' = [op |-> "cancelPositionMonitoring", id |-> positionId, found |-> found,
                  pending |-> pending]
      /\ ghost' = [ghost EXCEPT !.cancels = @ + 1,
                                !.cancelled = IF pending THEN @ \cup {positionId} ELSE @]
      /\ UNCHANGED <<now, timeouts, stabilityChecks, fires>>
      /\ UNCHANGED analysisVars

\* cleanupOldChecks, as the end of a tick calls it
CleanupOldChecks ==
  /\ Len(stabilityChecks) > CHECKS_KEPT
  /\ stabilityChecks' = KeepLast(stabilityChecks, CHECKS_KEPT)
  /\ last' = [op |-> "cleanupOldChecks"]
  /\ UNCHANGED <<now, activeMonitoring, timers, timeouts, fires, ghost>>
  /\ UNCHANGED analysisVars

NextMonitor ==
  \/ \E request \in ArmRequests : Arm(request)
  \/ Advance
  \/ \E timer \in timers : TimerRuns(timer)
  \/ \E fire \in fires, response \in FireResponses : FetchReturns(fire, response)
  \/ \E fire \in fires : SheetReturns(fire)
  \/ \E positionId \in CancelIds : Cancel(positionId)
  \/ CleanupOldChecks

SpecMonitor == InitMonitor /\ [][NextMonitor]_vars

\* Calls of startPositionMonitoring for a leg at the rate 0, as Strategy 1
\* hands it over for one leg of a pair, and for a leg at -0.004.
SteadyRequests ==
  {[ticker |-> "AUSDT", exchange |-> "binance", originalFundingRate |-> r,
    nextFundingTime |-> 3, strategy |-> "rate_arbitrage"] : r \in {0, -400}}

\* The tables the checks fetch when the rates have not moved or have moved
\* to the other request's.
SteadyResponses ==
  {[ok |-> TRUE, data |-> <<Row("AUSDT", [binance |-> Quote(r, 3)])>>] : r \in {0, -400}}

\* Checks armed and run on rates that stay.
NextSteady ==
  \/ \E request \in SteadyRequests : Arm(request)
  \/ Advance
  \/ \E timer \in timers : TimerRuns(timer)
  \/ \E fire \in fires, response \in SteadyResponses : FetchReturns(fire, response)
  \/ \E fire \in fires : SheetReturns(fire)

SpecSteady == InitMonitor /\ [][NextSteady]_vars

\* The same with time passing, every timer set by setTimeout running once
\* it is due, and every await of a running check being resumed.
LiveMonitor ==
  /\ SpecMonitor
  /\ WF_vars(Advance)
  /\ WF_vars(\E timer \in timers : TimerRuns(timer))
  /\ WF_vars(\E fire \in fires, response \in FireResponses : FetchReturns(fire, response))
  /\ WF_vars(\E fire \in fires : SheetReturns(fire))

----------------------------------------------------------------------------
(* What the claims speak of, stated on the snapshot itself *)

VenueIndex(e) == CHOOSE i \in 1..Len(Exchanges) : Exchanges[i] = e

\* The venues of a row with a known rate and a payout time.
Known(td) ==
  {e \in ExchangeSet :
     td.data[e].present /\ td.data[e].rateKnown /\ td.data[e].nextFundingTime # 0}

\* The unordered pairs of such venues, each written in venue order.
KnownPairs(td) == {p \in Known(td) \X Known(td) : VenueIndex(p[1]) < VenueIndex(p[2])}

\* Pair p comes before pair q when pairs (i, j), i < j, are enumerated in venue order.
Before(p, q) ==
  \/ VenueIndex(p[1]) < VenueIndex(q[1])
  \/ p[1] = q[1] /\ VenueIndex(p[2]) < VenueIndex(q[2])

\* The clock value the call read when it came to pair p.
ReadFor(td, clk, p) ==
  LET number == 1 + Cardinality({q \in KnownPairs(td) : Before(q, p)})
  IN  IF number >= clk.adv THEN clk.at + 1 ELSE clk.at

\* The clock kept one value for the whole call.
SteadyClock(td, clk) == clk.adv = 1 \/ clk.adv > Cardinality(KnownPairs(td))

\* The two venues of an opportunity, in venue order.
PairOf(o) ==
  IF VenueIndex(o.longExchange) < VenueIndex(o.shortExchange)
    THEN <<o.longExchange, o.shortExchange>>
    ELSE <<o.shortExchange, o.longExchange>>

Skew(td, p) == Abs(td.data[p[1]].nextFundingTime - td.data[p[2]].nextFundingTime)

EarlierPayout(td, p) == Min2(td.data[p[1]].nextFundingTime, td.data[p[2]].nextFundingTime)

RateGap(td, p) == Abs(td.data[p[1]].fundingRate - td.data[p[2]].fundingRate)

RateSum(td, p) == Abs(td.data[p[1]].fundingRate) + Abs(td.data[p[2]].fundingRate)

Returned1 == last.op = "strategy1" /\ last.result # NoOpp

Returned2 == last.op = "strategy2" /\ last.result # NoOpp

ReturnedAny == Returned1 \/ Returned2

----------------------------------------------------------------------------
(* C1 *)

\* C1: an Opportunity returned by findBestOpportunity of either matcher names
\* two different venues, both of the seven-venue list, and both present in
\* the snapshot with a known rate and a payout time.
C1_TwoKnownVenues ==
  ReturnedAny =>
    /\ last.result.longExchange # last.result.shortExchange
    /\ last.result.longExchange \in ExchangeSet
    /\ last.result.shortExchange \in ExchangeSet
    /\ Cardinality(ExchangeSet) = 7
    /\ \A e \in {last.result.longExchange, last.result.shortExchange} :
         /\ tickerData.data[e].present
         /\ tickerData.data[e].rateKnown
         /\ tickerData.data[e].nextFundingTime # 0

\* Strategy 2 returns an opportunity on a row that also holds an entry
\* without a rate, listed before both of its legs.
C1_Witness ==
  /\ Returned2
  /\ \E e \in ExchangeSet :
       /\ tickerData.data[e].present /\ ~tickerData.data[e].rateKnown
       /\ VenueIndex(e) < VenueIndex(PairOf(last.result)[1])

----------------------------------------------------------------------------
(* C2 *)

\* C2: an Opportunity returned by either matcher has timeToFunding = (earlier
\* of its two legs' payout times) - (the clock the call read for that pair),
\* lying in [minTimeToFunding, maxTimeToFunding] of the configuration in
\* force, and its nextFundingTime is the earlier of the two payout times.
C2_LeadWindow ==
  ReturnedAny =>
    LET o == last.result
        p == PairOf(o)
    IN  /\ o.nextFundingTime = EarlierPayout(tickerData, p)
        /\ o.timeToFunding = EarlierPayout(tickerData, p) - ReadFor(tickerData, last.clk, p)
        /\ o.timeToFunding >= last.cfg.minTimeToFunding
        /\ o.timeToFunding <= last.cfg.maxTimeToFunding

\* Strategy 1, under its default configuration, returns an opportunity whose
\* lead time is exactly the minimum, read after the clock advanced during
\* the call.
C2_Witness ==
  /\ Returned1
  /\ last.cfg = DefaultConfig1
  /\ last.result.timeToFunding = last.cfg.minTimeToFunding
  /\ ReadFor(tickerData, last.clk, PairOf(last.result)) = last.clk.at + 1
  /\ ~SteadyClock(tickerData, last.clk)

----------------------------------------------------------------------------
(* C3 *)

Configs1 == {MergeConfig(DefaultConfig1, o) : o \in Overrides1}

Configs2 == {MergeConfig(DefaultConfig2, o) : o \in Overrides2}

\* The venue pairs of the opportunities a call pushed.
PairsOf(opps) == {PairOf(opps[k]) : k \in 1..Len(opps)}

\* C3: Strategy 1 accepts a venue pair only when its payout skew is at most
\* maxTimeDiff, Strategy 2 only when it is at least minTimeDiff; so when
\* maxTimeDiff < minTimeDiff no venue pair of the snapshot is accepted by
\* both matchers reading the same clock.
C3_DisjointSkew ==
  /\ last.op = "strategy1" =>
       /\ \A p \in PairsOf(last.opportunities) : Skew(tickerData, p) <= last.cfg.maxTimeDiff
       /\ \A cfg2 \in Configs2 :
            last.cfg.maxTimeDiff < cfg2.minTimeDiff =>
              PairsOf(last.opportunities)
                \cap PairsOf(Opportunities2(tickerData, cfg2, last.clk)) = {}
  /\ last.op = "strategy2" =>
       /\ \A p \in PairsOf(last.opportunities) : Skew(tickerData, p) >= last.cfg.minTimeDiff
       /\ \A cfg1 \in Configs1 :
            cfg1.maxTimeDiff < last.cfg.minTimeDiff =>
              PairsOf(last.opportunities)
                \cap PairsOf(Opportunities1(tickerData, cfg1, last.clk)) = {}

\* Under the two default configurations both matchers return an opportunity
\* on the same row, through different venue pairs.
C3_Witness ==
  /\ Returned1
  /\ last.cfg = DefaultConfig1
  /\ Strategy2FindBest(tickerData, DefaultConfig2, last.clk) # NoOpp
  /\ PairOf(Strategy2FindBest(tickerData, DefaultConfig2, last.clk)) # PairOf(last.result)

----------------------------------------------------------------------------
(* C4 *)

\* Pair p passes Strategy 1's three filters at the clock the call read for it.
Passes1(td, cfg, clk, p) ==
  LET lead == EarlierPayout(td, p) - ReadFor(td, clk, p)
  IN  /\ Skew(td, p) <= cfg.maxTimeDiff
      /\ RateGap(td, p) >= cfg.minFundingDiff
      /\ lead >= cfg.minTimeToFunding
      /\ lead <= cfg.maxTimeToFunding

Passing1(td, cfg, clk) == {p \in KnownPairs(td) : Passes1(td, cfg, clk, p)}

----------------------------------------------------------------------------
(* C5 *)

\* C5: in every Opportunity Strategy 1 returns, the long leg is the venue
\* with the lower funding rate and the short leg the other one, so
\* longFundingRate <= shortFundingRate, and fundingDiff = shortFundingRate -
\* longFundingRate = |rateA - rateB| >= minFundingDiff >= 0.  For the example
\* (P at -0.0040 paying in 10 minutes, Q at +0.0010 paying in 11 minutes,
\* default thresholds) the result is long = P, short = Q, fundingDiff = 0.0050.
C5_LongIsLower ==
  /\ Returned1 =>
       LET o == last.result
       IN  /\ tickerData.data[o.longExchange].fundingRate = o.longFundingRate
           /\ tickerData.data[o.shortExchange].fundingRate = o.shortFundingRate
           /\ o.longFundingRate <= o.shortFundingRate
           /\ o.fundingDiff = o.shortFundingRate - o.longFundingRate
           /\ o.fundingDiff = RateGap(tickerData, PairOf(o))
           /\ o.fundingDiff >= last.cfg.minFundingDiff
           /\ o.fundingDiff >= 0
  /\ (/\ last.op = "strategy1"
      /\ tickerData = ExampleRow
      /\ last.cfg = DefaultConfig1
      /\ ReadFor(tickerData, last.clk, <<"binance", "bybit">>) = 0) =>
       last.result = [ticker |-> "XUSDT", longExchange |-> "binance", shortExchange |-> "bybit",
                      longFundingRate |-> -400, shortFundingRate |-> 100, fundingDiff |-> 500,
                      nextFundingTime |-> 10, timeToFunding |-> 10,
                      strategy |-> "rate_arbitrage"]

\* Strategy 1 has returned on the example row under the default thresholds.
C5_Witness ==
  /\ Returned1
  /\ tickerData = ExampleRow
  /\ last.cfg = DefaultConfig1
  /\ ReadFor(tickerData, last.clk, <<"binance", "bybit">>) = 0

----------------------------------------------------------------------------
(* C6 *)

\* The row with the entries of venues a and b exchanged.
Swap(td, a, b) ==
  [td EXCEPT !.data = [e \in ExchangeSet |->
                         IF e = a THEN td.data[b] ELSE IF e = b THEN td.data[a] ELSE td.data[e]]]

Swapped(e, a, b) == IF e = a THEN b ELSE IF e = b THEN a ELSE e

\* What exchanging the entries of a and b does to the result of a Strategy 1
\* call that returned o: the same null-ness and fundingDiff, the long leg
\* still the lower-rate entry; and, when one pair alone has the largest gap
\* and its rates differ, the same Opportunity on the exchanged venues.
SameUnderSwap(td, cfg, clk, o, a, b) ==
  \A o2 \in {Strategy1FindBest(Swap(td, a, b), cfg, clk)} :
    /\ o2 = NoOpp <=> o = NoOpp
    /\ o # NoOpp =>
         /\ o2.fundingDiff = o.fundingDiff
         /\ o2.longFundingRate <= o2.shortFundingRate
         /\ Swap(td, a, b).data[o2.longExchange].fundingRate = o2.longFundingRate
         /\ Swap(td, a, b).data[o2.shortExchange].fundingRate = o2.shortFundingRate
         /\ (/\ o.longFundingRate < o.shortFundingRate
             /\ Cardinality({q \in Passing1(td, cfg, clk) :
                               RateGap(td, q) = o.fundingDiff}) = 1) =>
              o2 = [o EXCEPT !.longExchange = Swapped(o.longExchange, a, b),
                             !.shortExchange = Swapped(o.shortExchange, a, b)]

\* C6: Strategy 1 is symmetric in its two venues: exchanging the entries of
\* two venues of the snapshot yields an Opportunity with the same fundingDiff
\* and with the long/short roles following the entries (long is still the
\* lower-rate entry), also when several pairs tie and when the two rates are
\* equal; the clock keeping one value for the call.  (Exchanging a with b is
\* exchanging b with a, and exchanging two absent entries changes nothing.)
C6_Symmetric1 ==
  (last.op = "strategy1" /\ SteadyClock(tickerData, last.clk)) =>
    \A a, b \in ExchangeSet :
      (VenueIndex(a) < VenueIndex(b) /\ (tickerData.data[a].present \/ tickerData.data[b].present)) =>
        SameUnderSwap(tickerData, last.cfg, last.clk, last.result, a, b)

\* Several pairs have the largest gap, and exchanging two entries makes the
\* call return something else than the former Opportunity on the exchanged
\* venues.
C6_Witness ==
  /\ Returned1
  /\ SteadyClock(tickerData, last.clk)
  /\ \E a, b \in ExchangeSet :
       Strategy1FindBest(Swap(tickerData, a, b), last.cfg, last.clk)
         # [last.result EXCEPT !.longExchange = Swapped(last.result.longExchange, a, b),
                               !.shortExchange = Swapped(last.result.shortExchange, a, b)]

----------------------------------------------------------------------------
(* C7 *)

\* Pair p passes Strategy 2's three filters at the clock the call read for it.
Passes2(td, cfg, clk, p) ==
  LET lead == EarlierPayout(td, p) - ReadFor(td, clk, p)
  IN  /\ Skew(td, p) >= cfg.minTimeDiff
      /\ Abs(td.data[p[1]].fundingRate) >= cfg.minAbsFundingRate
      /\ Abs(td.data[p[2]].fundingRate) >= cfg.minAbsFundingRate
      /\ lead >= cfg.minTimeToFunding
      /\ lead <= cfg.maxTimeToFunding

Passing2(td, cfg, clk) == {p \in KnownPairs(td) : Passes2(td, cfg, clk, p)}

\* C7: Strategy 2 accepts a venue pair only if its payout skew is at least
\* minTimeDiff and each leg's absolute rate is at least minAbsFundingRate,
\* whatever the signs; the Opportunity returned has fundingDiff = |rateA| +
\* |rateB| and is the accepted pair with the largest such sum, the first in
\* venue iteration order among equals.
C7_BestPair2 ==
  last.op = "strategy2" =>
    LET passing == Passing2(tickerData, last.cfg, last.clk)
    IN  /\ PairsOf(last.opportunities) = passing
        /\ \A k \in 1..Len(last.opportunities) :
             last.opportunities[k].fundingDiff
               = RateSum(tickerData, PairOf(last.opportunities[k]))
        /\ last.result = NoOpp <=> passing = {}
        /\ last.result # NoOpp =>
             LET p == PairOf(last.result)
             IN  /\ p \in passing
                 /\ last.result.fundingDiff = RateSum(tickerData, p)
                 /\ \A q \in passing :
                      /\ RateSum(tickerData, q) <= RateSum(tickerData, p)
                      /\ RateSum(tickerData, q) = RateSum(tickerData, p) => ~Before(q, p)

\* Strategy 2 returns a pair whose rates have opposite signs, while another
\* accepted pair has the same sum and a third a smaller one.
C7_Witness ==
  /\ Returned2
  /\ last.result.longFundingRate * last.result.shortFundingRate < 0
  /\ \E q \in Passing2(tickerData, last.cfg, last.clk) :
       /\ q # PairOf(last.result)
       /\ RateSum(tickerData, q) = last.result.fundingDiff
  /\ \E q \in Passing2(tickerData, last.cfg, last.clk) :
       RateSum(tickerData, q) < last.result.fundingDiff

----------------------------------------------------------------------------
(* C8 *)

\* C8: in every Opportunity Strategy 2 returns, the first (long) leg is the
\* venue whose payout is earlier and the second (short) leg the venue whose
\* payout is later, the recorded rates are those venues' rates, and
\* nextFundingTime is the first leg's payout time.
C8_EarlierFirst ==
  Returned2 =>
    LET o == last.result
    IN  /\ tickerData.data[o.longExchange].nextFundingTime
             < tickerData.data[o.shortExchange].nextFundingTime
        /\ o.longFundingRate = tickerData.data[o.longExchange].fundingRate
        /\ o.shortFundingRate = tickerData.data[o.shortExchange].fundingRate
        /\ o.nextFundingTime = tickerData.data[o.longExchange].nextFundingTime

\* The venue that pays earlier comes later in the venue order, and the two
\* legs carry different rates.
C8_Witness ==
  /\ Returned2
  /\ VenueIndex(last.result.longExchange) > VenueIndex(last.result.shortExchange)
  /\ last.result.longFundingRate # last.result.shortFundingRate

----------------------------------------------------------------------------
(* C9 *)

\* The thresholds the Strategy 1 scan of this table ran with.
ScanConfig1 == IF last.op = "analyzeAll1" THEN last.cfg ELSE last.cfg1

\* list holds the non-null ones of results, each once, in an order of
\* non-increasing fundingDiff; results has one entry per row of the table.
IsScanOf(list, results) ==
  /\ \A k \in 1..(Len(list) - 1) : list[k].fundingDiff >= list[k + 1].fundingDiff
  /\ {list[k] : k \in 1..Len(list)} = {results[i] : i \in DOMAIN results} \ {NoOpp}
  /\ Len(list) = Cardinality({i \in DOMAIN results : results[i] # NoOpp})
  /\ \A i \in DOMAIN results :
       Cardinality({k \in 1..Len(list) : list[k].ticker = spreadsData[i].ticker}) <= 1

\* C9: the scan of a list of snapshots by either strategy returns exactly the
\* Opportunities findBestOpportunity returns on the snapshots where it returns
\* one, at most one per snapshot, ordered by non-increasing fundingDiff.
C9_ScanSorted ==
  /\ pc \in {"scanned1", "scanned2", "decided"} =>
       IsScanOf(strategy1Opportunities,
                [i \in DOMAIN spreadsData |->
                   Strategy1FindBest(spreadsData[i], ScanConfig1, SteadyAt(now))])
  /\ pc \in {"scanned2", "decided"} =>
       IsScanOf(strategy2Opportunities,
                [i \in DOMAIN spreadsData |->
                   Strategy2FindBest(spreadsData[i], last.cfg, SteadyAt(now))])

\* The Strategy 1 scan has put a later row's Opportunity before an earlier
\* row's, and the Strategy 2 scan has dropped a row that gave none.
C9_Witness ==
  /\ pc = "scanned2"
  /\ Len(strategy1Opportunities) = 2
  /\ strategy1Opportunities[1].ticker = spreadsData[2].ticker
  /\ strategy1Opportunities[2].ticker = spreadsData[1].ticker
  /\ strategy1Opportunities[1].fundingDiff > strategy1Opportunities[2].fundingDiff
  /\ Len(strategy2Opportunities) = 1

----------------------------------------------------------------------------
(* C10 *)

\* C10: when both lists of Opportunities are empty the allocator returns a
\* "skip" decision with no selected Opportunities, with totalPotentialProfit,
\* totalCommissions and netProfit all 0, and asks for no commission quote.
C10_SkipWhenEmpty ==
  (pc = "decided" /\ strategy1Opportunities = <<>> /\ strategy2Opportunities = <<>>) =>
    /\ ~allocation.threw
    /\ allocation.decision.action = "skip"
    /\ allocation.decision.selectedOpportunities = <<>>
    /\ allocation.decision.totalPotentialProfit = 0
    /\ allocation.decision.totalCommissions = 0
    /\ allocation.decision.netProfit = 0
    /\ allocation.quotes = <<>>

\* The allocator has decided on two empty lists, scanned from a table with a
\* row on which two venues are quoted.
C10_Witness ==
  /\ pc = "decided"
  /\ strategy1Opportunities = <<>>
  /\ strategy2Opportunities = <<>>
  /\ allocation.decision.action = "skip"
  /\ \E i \in DOMAIN spreadsData : Cardinality(Known(spreadsData[i])) >= 2

----------------------------------------------------------------------------
(* C11 *)

\* C11: when exactly one of the two lists has a candidate, the allocator
\* returns the decision to enter that candidate (enter_strategy1 for a
\* Strategy 1 candidate, enter_strategy2 for a Strategy 2 candidate), with
\* that one Opportunity selected and the notional of a single leg, whatever
\* the candidate nets.
C11_EntersOnlyCandidate ==
  pc = "decided" =>
    /\ (Len(strategy1Opportunities) > 0 /\ Len(strategy2Opportunities) = 0) =>
         /\ ~allocation.threw
         /\ allocation.decision.action = "enter_strategy1"
         /\ allocation.decision.selectedOpportunities = <<strategy1Opportunities[1]>>
         /\ allocation.decision.positionSize = POSITION_SIZE
    /\ (Len(strategy1Opportunities) = 0 /\ Len(strategy2Opportunities) > 0) =>
         /\ ~allocation.threw
         /\ allocation.decision.action = "enter_strategy2"
         /\ allocation.decision.selectedOpportunities = <<strategy2Opportunities[1]>>
         /\ allocation.decision.positionSize = POSITION_SIZE

----------------------------------------------------------------------------
(* C12 *)

\* C12: when both lists have a candidate and the tickers of the two best
\* candidates differ, the allocator returns enter_both with both selected,
\* Strategy 1's first, twice the notional of a leg, and totalPotentialProfit,
\* totalCommissions and netProfit each the sum of the two candidates' own.
C12_EntersBoth ==
  (/\ pc = "decided"
   /\ Len(strategy1Opportunities) > 0
   /\ Len(strategy2Opportunities) > 0
   /\ strategy1Opportunities[1].ticker # strategy2Opportunities[1].ticker) =>
    /\ ~allocation.threw
    /\ allocation.decision.action = "enter_both"
    /\ allocation.decision.selectedOpportunities
         = <<strategy1Opportunities[1], strategy2Opportunities[1]>>
    /\ allocation.decision.positionSize = 2 * POSITION_SIZE
    /\ allocation.decision.totalPotentialProfit
         = CalculateNetProfit(strategy1Opportunities[1]).grossProfit
           + CalculateNetProfit(strategy2Opportunities[1]).grossProfit
    /\ allocation.decision.totalCommissions
         = CalculateNetProfit(strategy1Opportunities[1]).totalCommissions
           + CalculateNetProfit(strategy2Opportunities[1]).totalCommissions
    /\ allocation.decision.netProfit
         = CalculateNetProfit(strategy1Opportunities[1]).netProfit
           + CalculateNetProfit(strategy2Opportunities[1]).netProfit

----------------------------------------------------------------------------
(* C13 *)

\* C13: when both lists have a candidate and the two best candidates are on
\* the same ticker, the allocator selects exactly one of them: the one with
\* the strictly higher net profit, Strategy 1's when the two net the same; it
\* returns neither enter_both nor skip.
C13_SameTickerPicksOne ==
  (/\ pc = "decided"
   /\ Len(strategy1Opportunities) > 0
   /\ Len(strategy2Opportunities) > 0
   /\ strategy1Opportunities[1].ticker = strategy2Opportunities[1].ticker) =>
    /\ ~allocation.threw
    /\ allocation.decision.action \in {"enter_strategy1", "enter_strategy2"}
    /\ Len(allocation.decision.selectedOpportunities) = 1
    /\ LET net1 == CalculateNetProfit(strategy1Opportunities[1]).netProfit
           net2 == CalculateNetProfit(strategy2Opportunities[1]).netProfit
       IN  IF net2 > net1
             THEN /\ allocation.decision.action = "enter_strategy2"
                  /\ allocation.decision.selectedOpportunities = <<strategy2Opportunities[1]>>
                  /\ allocation.decision.netProfit = net2
             ELSE /\ allocation.decision.action = "enter_strategy1"
                  /\ allocation.decision.selectedOpportunities = <<strategy1Opportunities[1]>>
                  /\ allocation.decision.netProfit = net1

----------------------------------------------------------------------------
(* C14 *)

\* The total of the four legs when all are charged the taker rate, and when
\* the two entries are charged the maker rate, read off the fee table.
AllTakerTotal(long, short, size) ==
  2 * size * (EXCHANGE_FEES[long].taker + EXCHANGE_FEES[short].taker)

MakerEntryTotal(long, short, size) ==
  size * (EXCHANGE_FEES[long].maker + EXCHANGE_FEES[short].maker
          + EXCHANGE_FEES[long].taker + EXCHANGE_FEES[short].taker)

\* fundingDiff times the notional of a leg, less the lower of the two totals.
NetOf(o) ==
  o.fundingDiff * POSITION_SIZE
    - Min2(AllTakerTotal(o.longExchange, o.shortExchange, POSITION_SIZE),
           MakerEntryTotal(o.longExchange, o.shortExchange, POSITION_SIZE))

\* The best candidates of the two lists whose venues both have fees.
QuotedHeads ==
  {l[1] : l \in {m \in {strategy1Opportunities, strategy2Opportunities} : Len(m) > 0}}
    \cap {o \in Candidates1 \cup Candidates2 :
            ~CommissionThrows(o.longExchange, o.shortExchange)}

\* C14: the net profit the allocator computes for a candidate is fundingDiff
\* times the notional of a leg less the lower of the all-taker total and the
\* maker-entry/taker-exit total for the candidate's two venues; and in every
\* decision netProfit = totalPotentialProfit - totalCommissions.
C14_NetProfit ==
  pc = "decided" =>
    /\ \A o \in QuotedHeads : CalculateNetProfit(o).netProfit = NetOf(o)
    /\ ~allocation.threw =>
         /\ allocation.decision.netProfit
              = allocation.decision.totalPotentialProfit - allocation.decision.totalCommissions
         /\ Len(allocation.decision.selectedOpportunities) = 1 =>
              allocation.decision.netProfit = NetOf(allocation.decision.selectedOpportunities[1])
         /\ Len(allocation.decision.selectedOpportunities) = 2 =>
              allocation.decision.netProfit
                = NetOf(allocation.decision.selectedOpportunities[1])
                  + NetOf(allocation.decision.selectedOpportunities[2])

\* Both are entered: a candidate that nets less than nothing and one with a
\* leg on the venue whose maker rate is a rebate.
C14_Witness ==
  /\ pc = "decided"
  /\ ~allocation.threw
  /\ allocation.decision.action = "enter_both"
  /\ NetOf(allocation.decision.selectedOpportunities[1]) < 0
  /\ allocation.decision.selectedOpportunities[2].shortExchange = "bitmex"

----------------------------------------------------------------------------
(* C15 *)

\* A list cut down to its first element.
HeadOnly(l) == IF Len(l) = 0 THEN <<>> ELSE <<l[1]>>

\* C15: the allocator looks at the first element of each list only: every
\* Opportunity of a decision is the first of the Strategy 1 list or the first
\* of the Strategy 2 list; none is selected exactly when the action is skip,
\* two exactly when it is enter_both, and one otherwise; and the elements
\* behind the first never change the outcome.
C15_HeadsOnly ==
  pc = "decided" =>
    /\ ~allocation.threw =>
         LET selected == allocation.decision.selectedOpportunities
             action == allocation.decision.action
         IN  /\ \A k \in 1..Len(selected) :
                  \/ Len(strategy1Opportunities) > 0 /\ selected[k] = strategy1Opportunities[1]
                  \/ Len(strategy2Opportunities) > 0 /\ selected[k] = strategy2Opportunities[1]
             /\ Len(selected) = 0 <=> action = "skip"
             /\ Len(selected) = 2 <=> action = "enter_both"
             /\ action \in {"enter_strategy1", "enter_strategy2"} <=> Len(selected) = 1
    /\ allocation = AllocateStrategy(HeadOnly(strategy1Opportunities),
                                     HeadOnly(strategy2Opportunities))

\* Each list has a second element, on another ticker than the first ones;
\* the second of the Strategy 2 list has a leg on a venue without fees, and
\* one candidate is selected.
C15_Witness ==
  /\ pc = "decided"
  /\ ~allocation.threw
  /\ Len(strategy1Opportunities) >= 2
  /\ Len(strategy2Opportunities) >= 2
  /\ Len(allocation.decision.selectedOpportunities) = 1
  /\ CommissionThrows(strategy2Opportunities[2].longExchange,
                      strategy2Opportunities[2].shortExchange)

----------------------------------------------------------------------------
(* C16 *)

\* C16: a quote charges, with all market orders, the four legs (entry long,
\* entry short, exit long, exit short) at the taker rate of the leg's venue
\* times the notional; with limit entries, the two entries at the maker rate
\* and the two exits at the taker rate.  The total is the sum of the four
\* components, and a negative maker rate lowers it.
C16_FourLegs ==
  (last.op = "calculateCommissions" /\ ~last.threw) =>
    LET long == EXCHANGE_FEES[last.longExchange]
        short == EXCHANGE_FEES[last.shortExchange]
        c == last.commission
    IN  /\ c.entryCommissionLong
             = last.positionSize * (IF last.useLimit THEN long.maker ELSE long.taker)
        /\ c.entryCommissionShort
             = last.positionSize * (IF last.useLimit THEN short.maker ELSE short.taker)
        /\ c.exitCommissionLong = last.positionSize * long.taker
        /\ c.exitCommissionShort = last.positionSize * short.taker
        /\ c.totalCommission = c.entryCommissionLong + c.entryCommissionShort
                                + c.exitCommissionLong + c.exitCommissionShort
        /\ c.commissionType = (IF last.useLimit THEN "limit_market" ELSE "all_market")
        /\ (last.useLimit /\ long.maker < 0 /\ last.positionSize > 0) =>
             c.totalCommission < c.entryCommissionShort + c.exitCommissionLong
                                 + c.exitCommissionShort

\* A quote with limit entries whose long leg is on the venue that pays a
\* rebate: the entry of that leg is charged less than nothing.
C16_Witness ==
  /\ last.op = "calculateCommissions"
  /\ ~last.threw
  /\ last.useLimit
  /\ last.longExchange = "bitmex"
  /\ last.shortExchange = "okx"
  /\ last.positionSize = POSITION_SIZE
  /\ last.commission.entryCommissionLong < 0
  /\ last.commission.totalCommission = 135000

----------------------------------------------------------------------------
(* C17 *)

\* C17: for every two venues with fees and every notional that is not
\* negative, the all-market total is at least the limit+market total; the
\* maker rate of every venue of the fee table is at most its taker rate, the
\* rebate of bitmex (-0.0001) included.
C17_MarketNotCheaper ==
  /\ \A e \in DOMAIN EXCHANGE_FEES : EXCHANGE_FEES[e].maker <= EXCHANGE_FEES[e].taker
  /\ EXCHANGE_FEES["bitmex"].maker = -10
  /\ (last.op = "compareCommissionTypes" /\ ~last.threw /\ last.positionSize >= 0) =>
       /\ last.market.totalCommission >= last.limitMarket.totalCommission
       /\ last.savings >= 0

\* The two quotes compared for a pair with both legs on bitmex.
C17_Witness ==
  /\ last.op = "compareCommissionTypes"
  /\ ~last.threw
  /\ last.longExchange = "bitmex"
  /\ last.shortExchange = "bitmex"
  /\ last.positionSize = POSITION_SIZE
  /\ last.savings > 0

----------------------------------------------------------------------------
(* C18 *)

\* C18: a quote for which one of the two venues has no entry in the fee
\* table throws and returns no breakdown; a quote for two venues of the fee
\* table never throws.
C18_UnknownVenueThrows ==
  last.op = "calculateCommissions" =>
    /\ last.threw <=> (\/ last.longExchange \notin DOMAIN EXCHANGE_FEES
                       \/ last.shortExchange \notin DOMAIN EXCHANGE_FEES)
    /\ last.threw => last.commission = NoCommission
    /\ ~last.threw => last.commission.commissionType \in {"all_market", "limit_market"}

\* A quote whose long venue has fees and whose short venue, mexc, has none.
C18_Witness ==
  /\ last.op = "calculateCommissions"
  /\ last.threw
  /\ last.longExchange = "binance"
  /\ last.shortExchange = "mexc"

----------------------------------------------------------------------------
(* C19 *)

\* C19: an error of a commission quote is local: when the quote for one
\* candidate throws (a leg on mexc, which has no fees), the tick is not
\* abandoned and still appends its decision.
C19_QuoteErrorIsLocal ==
  (pc = "done" /\ tick.outcome # "none" /\ allocation.threw) =>
    /\ tick.outcome = "completed"
    /\ tick.appended = 1
    /\ Len(decisions) > Len(tick.before.decisions) \/ Len(decisions) = DECISIONS_KEPT

----------------------------------------------------------------------------
(* C20 *)

\* C20: when the fetch at the start of a tick fails, the tick is abandoned:
\* no scan runs, no decision is appended, no check is armed, the fetch is
\* made once, and the active map, the timers and the stability history are
\* as the tick found them.
C20_FetchFailureAbandonsTick ==
  tick.outcome = "fetch_failed" =>
    /\ pc \in {"done", "idle"}
    /\ tick.fetches = 1
    /\ last = [op |-> "fetchSpreadsData", threw |-> TRUE]
    /\ strategy1Opportunities = <<>>
    /\ strategy2Opportunities = <<>>
    /\ allocation = NoAllocation
    /\ tick.appended = 0
    /\ decisions = tick.before.decisions
    /\ activeMonitoring = tick.before.activeMonitoring
    /\ timers = tick.before.timers
    /\ stabilityChecks = tick.before.stabilityChecks

\* The second tick fails to fetch after the first one appended a decision,
\* armed checks and trimmed the stability history.
C20_Witness ==
  /\ tick.outcome = "fetch_failed"
  /\ tick.n = 2
  /\ pc = "done"
  /\ \E p \in activeMonitoring : p.entryTime >= 0
  /\ Len(decisions) = 1
  /\ Len(stabilityChecks) = CHECKS_KEPT

----------------------------------------------------------------------------
(* What the claims speak of, stated on the monitoring service *)

\* The positions of the stability history that carry the id.
ResultsOf(positionId) ==
  {i \in 1..Len(stabilityChecks) : stabilityChecks[i].positionId = positionId}

\* The calls of checkFundingStability for the id that are awaiting.
FiresOf(positionId) == {f \in fires : f.id = positionId}

\* The pending timers set for the id.
TimersOf(positionId) == {t \in timers : t.id = positionId}

----------------------------------------------------------------------------
(* C21 *)

\* C21: a call of startPositionMonitoring made when the payout less the
\* lead of one minute is not later than the clock returns an id, sets no
\* timer and stores nothing under the id; the check of that id is expired
\* from the start, and no stability check carrying the id is ever produced.
C21_LateArmIsExpired ==
  \A positionId \in ghost.late :
    /\ MapGet(activeMonitoring, positionId) = {}
    /\ TimersOf(positionId) = {}
    /\ FiresOf(positionId) = {}
    /\ ResultsOf(positionId) = {}

----------------------------------------------------------------------------
(* C22 *)

\* C22: a check that fires produces at most one stability check, and once
\* its run has ended (result pushed, check discarded, or fetch failed) its
\* id is no longer in the active map and is not armed or run again.
C22_FiresOnce ==
  /\ \A positionId \in ghost.ids : Cardinality(ResultsOf(positionId)) <= 1
  /\ \A positionId \in ghost.completed :
       /\ MapGet(activeMonitoring, positionId) = {}
       /\ FiresOf(positionId) = {}

----------------------------------------------------------------------------
(* C23 *)

\* The table has no row of the ticker, or its first such row has no entry
\* of the venue or an entry without rate.
Lacks(data, ticker, exchange) ==
  \/ \A i \in 1..Len(data) : data[i].ticker # ticker
  \/ \E i \in 1..Len(data) :
       /\ data[i].ticker = ticker
       /\ \A j \in 1..(i - 1) : data[j].ticker # ticker
       /\ ~(data[i].data[exchange].present /\ data[i].data[exchange].rateKnown)

\* C23: when a check runs and the fetched table lacks its ticker, or the
\* entry or the rate of its venue for the ticker, the check is removed from
\* the active map and no stability check is appended.
C23_StaleCheckDiscarded ==
  [][(/\ last'.op = "fetchReturns"
      /\ last' # last
      /\ ~last'.threw
      /\ Lacks(last'.data, last'.position.ticker, last'.position.exchange))
     => /\ stabilityChecks' = stabilityChecks
        /\ MapGet(activeMonitoring', last'.id) = {}
        /\ MapGet(activeMonitoring, last'.id) # {} => activeMonitoring' # activeMonitoring
        /\ fires' \subseteq fires
        /\ \A f \in fires' : f.timeoutId # last'.timeoutId]_vars

\* A check has run against a table that has the ticker with a null rate on
\* the venue, while another check is still stored.
C23_Witness ==
  /\ last.op = "fetchReturns"
  /\ ~last.threw
  /\ Len(last.data) = 2
  /\ last.data[2].ticker = last.position.ticker
  /\ last.data[2].data[last.position.exchange] = NullRateEntry
  /\ MapGet(activeMonitoring, last.id) = {}
  /\ activeMonitoring # {}
  /\ stabilityChecks = <<>>

----------------------------------------------------------------------------
(* C24 *)

\* The rate of the venue in the first row of the ticker.
FreshRate(data, ticker, exchange) ==
  LET i == CHOOSE k \in 1..Len(data) :
             data[k].ticker = ticker /\ \A j \in 1..(k - 1) : data[j].ticker # ticker
  IN  data[i].data[exchange].fundingRate

----------------------------------------------------------------------------
(* C25 *)

\* C25: the stability history is bounded: in every reachable state, after
\* any sequence of ticks and of checks run between them, it holds at most
\* 50 stability checks.
C25_HistoryBounded == Len(stabilityChecks) <= CHECKS_KEPT

----------------------------------------------------------------------------
(* C26 *)

\* C26: a check that is armed and then cancelled before its timer runs
\* never produces a stability check: the cancel clears the timer, the id
\* leaves the active map, and nothing later appends a result with the id.
C26_CancelledNeverFires ==
  /\ (last.op = "cancelPositionMonitoring" /\ last.pending) =>
       MapGet(activeMonitoring, last.id) = {}
  /\ \A positionId \in ghost.cancelled : ResultsOf(positionId) = {}

----------------------------------------------------------------------------
(* C27 *)

\* C27: cancelPositionMonitoring for an id that no call returned, or whose
\* check has run to its end, or has expired (stored too late, or cancelled)
\* changes nothing: the active map, the timers and the stability history
\* stay as they are, and nothing is thrown.
C27_CancelOfEndedIsNoOp ==
  [][(/\ last'.op = "cancelPositionMonitoring"
      /\ last' # last
      /\ \/ last'.id \notin ghost.ids
         \/ last'.id \in ghost.late \cup ghost.cancelled \cup ghost.completed)
     => UNCHANGED <<activeMonitoring, timers, stabilityChecks, fires>>]_vars

----------------------------------------------------------------------------
(* C28 *)

\* C28: a check past its fire point cannot be cancelled: a call of
\* cancelPositionMonitoring made after the timer of the check has run, while
\* the check awaits its fetch, leaves the active map unchanged, and no check
\* ends both cancelled and with a stability check.
C28_NoCancelPastFirePoint ==
  [][(/\ last'.op = "cancelPositionMonitoring"
      /\ last' # last
      /\ \E f \in fires : f.id = last'.id /\ f.stage = "fetching")
     => UNCHANGED <<activeMonitoring, timers>>]_vars

----------------------------------------------------------------------------
(* C29 *)

\* The calls of startPositionMonitoring an accepted Opportunity asks for.
ChecksFor(opportunity) ==
  LET leg(exchange, rate) ==
        [ticker |-> opportunity.ticker, exchange |-> exchange,
         originalFundingRate |-> rate, nextFundingTime |-> opportunity.nextFundingTime,
         strategy |-> opportunity.strategy]
  IN  IF opportunity.strategy = "rate_arbitrage"
        THEN <<leg(opportunity.longExchange, opportunity.longFundingRate),
               leg(opportunity.shortExchange, opportunity.shortFundingRate)>>
        ELSE <<leg(opportunity.longExchange, opportunity.longFundingRate)>>

\* Those of all the opportunities of a list, in order.
RECURSIVE ChecksForAll(_)
ChecksForAll(selected) ==
  IF selected = <<>> THEN <<>> ELSE ChecksFor(Head(selected)) \o ChecksForAll(Tail(selected))

\* C29: for each accepted Opportunity the tick arms two checks when it is a
\* rate arbitrage, one per leg with the rate of the leg, and one check when
\* it is a timing arbitrage, for the leg that pays first; so a tick asks for
\* 0 checks on skip, 2 on enter_strategy1, 1 on enter_strategy2 and 3 on
\* enter_both, and every one asked for in time gets a timer of its own.
C29_ChecksPerDecision ==
  [][(pc = "recorded" /\ pc' = "done") =>
       LET decision == allocation.decision
           calls == tick'.calls
           inTime == {i \in 1..Len(calls) : calls[i].nextFundingTime - now' > CHECK_LEAD}
           created == timers' \ timers
       IN  /\ decisions[Len(decisions)] = decision
           /\ calls = ChecksForAll(decision.selectedOpportunities)
           /\ Len(calls) = (CASE decision.action = "skip" -> 0
                              [] decision.action = "enter_strategy1" -> 2
                              [] decision.action = "enter_strategy2" -> 1
                              [] decision.action = "enter_both" -> 3)
           /\ timers \subseteq timers'
           /\ Cardinality(created) = Cardinality(inTime)
           /\ \A i \in inTime :
                LET id == PositionId(calls[i].ticker, calls[i].exchange, now')
                IN  /\ \E t \in created : t.id = id /\ t.fireAt = calls[i].nextFundingTime - CHECK_LEAD
                    /\ \E q \in activeMonitoring' :
                         /\ q.id = id
                         /\ q.originalFundingRate = calls[i].originalFundingRate
                         /\ \E t \in created : t.timeoutId = q.timeoutId]_vars

\* A tick has entered both strategies and stored three checks, two for the
\* rate arbitrage and one for the timing arbitrage.
C29_Witness ==
  /\ pc = "done"
  /\ tick.outcome = "completed"
  /\ allocation.decision.action = "enter_both"
  /\ Len(tick.calls) = 3
  /\ tick.calls[1].exchange = "binance"
  /\ tick.calls[2].exchange = "bingx"
  /\ tick.calls[3].exchange = "bitget"
  /\ Cardinality({q \in activeMonitoring : q.entryTime = now}) = 3

----------------------------------------------------------------------------
(* C30 *)

\* C30: a step of one check's run (its timer's callback, the return of its
\* fetch, the return of its sheet write) leaves every other check as it
\* was: the entries, timers and runs of other checks stay, and a result it
\* pushes carries its own id; a call of startPositionMonitoring made in
\* between leaves the checks already there and the runs under way in place.
C30_ChecksAreIndependent ==
  [][/\ last'.op \in {"checkFundingStability", "fetchReturns", "sheetReturns"} =>
          /\ activeMonitoring' \subseteq activeMonitoring
          /\ \A q \in activeMonitoring : q.timeoutId # last'.timeoutId => q \in activeMonitoring'
          /\ \A t \in timers : t.timeoutId # last'.timeoutId => t \in timers'
          /\ \A f \in fires : f.timeoutId # last'.timeoutId => f \in fires'
          /\ \/ stabilityChecks' = stabilityChecks
             \/ /\ Len(stabilityChecks') = Len(stabilityChecks) + 1
                /\ SubSeq(stabilityChecks', 1, Len(stabilityChecks)) = stabilityChecks
                /\ stabilityChecks'[Len(stabilityChecks')].positionId = last'.id
     /\ last'.op = "startPositionMonitoring" =>
          /\ activeMonitoring \subseteq activeMonitoring'
          /\ timers \subseteq timers'
          /\ fires' = fires
          /\ stabilityChecks' = stabilityChecks]_vars

----------------------------------------------------------------------------
(* C31 *)

\* An entry that carries a rate but no payout time.
Malformed(d) == d.present /\ d.rateKnown /\ d.nextFundingTime = 0

\* C31: a matcher called on a row with a malformed entry, one that has a
\* rate but a missing or zero payout time, fails with an error: it neither
\* returns an Opportunity nor reports no opportunity as if the entry were
\* absent; a call on any other row throws nothing.
C31_MalformedInputRejected ==
  last.op \in {"strategy1", "strategy2"} =>
    (last.threw <=> \E e \in ExchangeSet : Malformed(tickerData.data[e]))

----------------------------------------------------------------------------
(* C32 *)

\* The candidate pairs bitmex with bingx or okx.
RebatePair(opportunity) ==
  {opportunity.longExchange, opportunity.shortExchange} \in {{"bitmex", "bingx"}, {"bitmex", "okx"}}

\* C32: for the notional 1000 and bitmex paired with bingx or okx, the
\* all-market quote totals 2.50, the quote with limit entries totals 1.35,
\* and the allocator nets the candidate against 1.35.
C32_RebatePairNetsAgainstLimitQuote ==
  (/\ pc = "decided"
   /\ ~allocation.threw
   /\ Len(allocation.decision.selectedOpportunities) = 1
   /\ RebatePair(allocation.decision.selectedOpportunities[1])) =>
    LET opportunity == allocation.decision.selectedOpportunities[1]
        mine == {i \in 1..Len(allocation.quotes) :
                   /\ allocation.quotes[i].longExchange = opportunity.longExchange
                   /\ allocation.quotes[i].shortExchange = opportunity.shortExchange}
        total(i) == CalculateCommissions(allocation.quotes[i].longExchange,
                                         allocation.quotes[i].shortExchange,
                                         allocation.quotes[i].positionSize,
                                         allocation.quotes[i].useLimit).totalCommission
    IN  /\ \E i \in mine : ~allocation.quotes[i].useLimit
        /\ \E i \in mine : allocation.quotes[i].useLimit
        /\ \A i \in mine :
             /\ allocation.quotes[i].positionSize = 1000
             /\ total(i) = IF allocation.quotes[i].useLimit THEN 135000 ELSE 250000
        /\ allocation.decision.totalCommissions = 135000
        /\ allocation.decision.netProfit = allocation.decision.totalPotentialProfit - 135000

\* The allocator has entered a lone rate arbitrage between bitmex and bingx:
\* 3.50 gross, 1.35 of commissions, 2.15 net.
C32_Witness ==
  /\ pc = "decided"
  /\ ~allocation.threw
  /\ allocation.decision.action = "enter_strategy1"
  /\ Len(allocation.decision.selectedOpportunities) = 1
  /\ allocation.decision.selectedOpportunities[1].longExchange = "bitmex"
  /\ allocation.decision.selectedOpportunities[1].shortExchange = "bingx"
  /\ allocation.decision.totalPotentialProfit = 350000
  /\ allocation.decision.netProfit = 215000

----------------------------------------------------------------------------
(* C33 *)

\* The check whose timer has this handle is stored in the active map.
Stored(timeoutId) == \E q \in activeMonitoring : q.timeoutId = timeoutId

\* C33: every check that is stored leaves the active map in the end, given
\* that its timer runs and the fetch of its run returns or fails: no
\* sequence of calls leaves a check stored forever.
C33_StoredCheckLeaves ==
  \A timeoutId \in 1..MaxArms : Stored(timeoutId) ~> ~Stored(timeoutId)

\* Every call allowed has stored a check, every check has run to its end,
\* and the active map is empty again.
C33_Witness ==
  /\ timeouts = MaxArms
  /\ ghost.completed # {}
  /\ timers = {}
  /\ fires = {}
  /\ activeMonitoring = {}

----------------------------------------------------------------------------
(* C34 *)

\* C34: the ids startPositionMonitoring returns are pairwise distinct, also
\* for two calls for one ticker and venue at one reading of the clock, so no
\* call replaces the entry of an earlier check and leaves its timer pending
\* without an entry.
C34_IdsAreDistinct ==
  /\ Cardinality(ghost.ids) = ghost.arms
  /\ \A t \in timers : \E q \in activeMonitoring : q.timeoutId = t.timeoutId /\ q.id = t.id

----------------------------------------------------------------------------
(* C35 *)

\* C35: at any time at most one stored check exists for a ticker, a venue
\* and a payout time: a later tick that accepts the same opportunity again
\* within its lead window arms no second check for the leg.
C35_OneCheckPerPayout ==
  \A q1, q2 \in activeMonitoring :
    (/\ q1.ticker = q2.ticker
     /\ q1.exchange = q2.exchange
     /\ q1.nextFundingTime = q2.nextFundingTime) => q1 = q2

----------------------------------------------------------------------------
(* C36 *)

\* C36: a check that ran and found the rate it was armed with is classified
\* stable, whatever that rate is, 0 included.
C36_UnchangedRateIsStable ==
  \A i \in 1..Len(stabilityChecks) :
    stabilityChecks[i].currentFundingRate = stabilityChecks[i].originalFundingRate
      => stabilityChecks[i].isStable

----------------------------------------------------------------------------
(* C37 *)

\* Gross profit less the cheaper of the two quotes, for venues with fees.
NetOfBestQuote(opportunity) ==
  LET total(useLimit) == CalculateCommissions(opportunity.longExchange, opportunity.shortExchange,
                                              POSITION_SIZE, useLimit).totalCommission
  IN  opportunity.fundingDiff * POSITION_SIZE - Min2(total(TRUE), total(FALSE))

\* C37: the allocator applies no floor on the profit: a lone rate-arbitrage
\* candidate on venues with fees is entered also when it nets a loss, and the
\* decision carries the negative netProfit; the candidate of bybit and
\* bitget at the gap 0.0015 is entered at 1.50 gross against 1.55.
C37_NoProfitFloor ==
  (/\ pc = "decided"
   /\ Len(strategy1Opportunities) > 0
   /\ Len(strategy2Opportunities) = 0
   /\ {strategy1Opportunities[1].longExchange, strategy1Opportunities[1].shortExchange}
        \subseteq DOMAIN EXCHANGE_FEES
   /\ NetOfBestQuote(strategy1Opportunities[1]) < 0) =>
    /\ ~allocation.threw
    /\ allocation.decision.action = "enter_strategy1"
    /\ allocation.decision.netProfit = NetOfBestQuote(strategy1Opportunities[1])
    /\ ({strategy1Opportunities[1].longExchange, strategy1Opportunities[1].shortExchange}
          = {"bybit", "bitget"} /\ strategy1Opportunities[1].fundingDiff = 150) =>
         /\ allocation.decision.totalPotentialProfit = 150000
         /\ allocation.decision.totalCommissions = 155000
         /\ allocation.decision.netProfit = -5000

\* The allocator has entered the lone candidate of bybit and bitget at a
\* loss of 0.05.
C37_Witness ==
  /\ pc = "decided"
  /\ Len(strategy2Opportunities) = 0
  /\ allocation.decision.action = "enter_strategy1"
  /\ allocation.decision.selectedOpportunities[1].longExchange = "bybit"
  /\ allocation.decision.selectedOpportunities[1].shortExchange = "bitget"
  /\ allocation.decision.netProfit < 0

----------------------------------------------------------------------------
(* C38 *)

\* The steps of a tick in their order: the places a tick can go to from each.
StepOrder ==
  [idle |-> {"fetched", "done"}, fetched |-> {"scanned1"}, scanned1 |-> {"scanned2"},
   scanned2 |-> {"decided"}, decided |-> {"recorded", "done"}, recorded |-> {"done"},
   done |-> {"idle"}]

\* What a tick has done when it is over.
TickEnd ==
  /\ (pc = "done" /\ tick.outcome = "completed") =>
       /\ Len(spreadsData) > 0
       /\ tick.appended = 1
       /\ decisions = KeepLast(Append(tick.before.decisions, allocation.decision), DECISIONS_KEPT)
  /\ tick.outcome = "no_data" =>
       /\ spreadsData = <<>>
       /\ pc \in {"done", "idle"}
       /\ tick.appended = 0
       /\ tick.calls = <<>>
       /\ strategy1Opportunities = <<>>
       /\ strategy2Opportunities = <<>>
       /\ allocation = NoAllocation
       /\ decisions = tick.before.decisions
       /\ activeMonitoring = tick.before.activeMonitoring
       /\ timers = tick.before.timers

\* C38: the steps of a tick run in the order fetch, Strategy 1 scan,
\* Strategy 2 scan, allocate, append the decision, persist it, arm the
\* checks, trim the histories: checks are armed only when the decision is in
\* the history and the write to the sheet has ended; a tick with a
\* non-empty table that completes appends exactly one decision, and a tick
\* with an empty table appends none and arms nothing.
C38_TickStepOrder ==
  [][/\ pc' # pc => pc' \in StepOrder[pc]
     /\ TickEnd'
     /\ strategy1Opportunities' # strategy1Opportunities =>
          \/ pc = "fetched" /\ pc' = "scanned1" /\ spreadsData # <<>>
          \/ pc = "idle" /\ strategy1Opportunities' = <<>>
     /\ strategy2Opportunities' # strategy2Opportunities =>
          \/ pc = "scanned1" /\ pc' = "scanned2"
          \/ pc = "idle" /\ strategy2Opportunities' = <<>>
     /\ allocation' # allocation =>
          \/ pc = "scanned2" /\ pc' = "decided"
          \/ pc = "idle" /\ allocation' = NoAllocation
     /\ Len(decisions') > Len(decisions) =>
          /\ pc = "decided" /\ pc' = "recorded"
          /\ decisions' = Append(decisions, allocation.decision)
          /\ tick.appended = 0
          /\ tick.sheet = "none" /\ tick'.sheet = "none"
          /\ activeMonitoring' = activeMonitoring /\ timers' = timers
     /\ (activeMonitoring' # activeMonitoring \/ timers' # timers \/ tick'.calls # tick.calls) =>
          \/ /\ pc = "recorded" /\ pc' = "done"
             /\ tick.appended = 1
             /\ decisions[Len(decisions)] = allocation.decision
             /\ tick'.sheet \in SheetOutcomes
          \/ pc = "idle" /\ tick'.calls = <<>> /\ activeMonitoring' = activeMonitoring
                         /\ timers' = timers
     /\ (Len(decisions') < Len(decisions) \/ Len(stabilityChecks') < Len(stabilityChecks)) =>
          /\ pc = "recorded" /\ pc' = "done"
          /\ decisions' = KeepLast(decisions, DECISIONS_KEPT)
          /\ stabilityChecks' = KeepLast(stabilityChecks, CHECKS_KEPT)]_vars

\* A tick on an empty table has ended after a tick that appended a decision,
\* wrote it to the sheet and armed checks.
C38_Witness ==
  /\ pc = "done"
  /\ tick.n = 2
  /\ tick.outcome = "no_data"
  /\ Len(decisions) = 1
  /\ decisions[1].action = "enter_both"
  /\ Cardinality(activeMonitoring) = 3

----------------------------------------------------------------------------
(* C39 *)

\* C39: whenever no run of analyzeStrategies is under way the history holds
\* at most 100 decisions, the most recent ones pushed, in the order of
\* their pushes; also after runs that overlap and runs ended by an error.
C39_DecisionsBounded ==
  (\A r \in Runs : pc[r] \in {"idle", "done"}) =>
    /\ Len(decisions) <= 100
    /\ Len(decisions) = Min2(Len(ghost.pushed), 100)
    /\ \A i \in 1..Len(decisions) :
         decisions[i] = ghost.pushed[Len(ghost.pushed) - Len(decisions) + i]

\* Two runs have overlapped on a full history: both pushed before either
\* trimmed, and both have ended.
C39_Witness ==
  /\ \A r \in Runs : pc[r] = "done"
  /\ Len(ghost.pushed) >= DECISIONS_KEPT + 2
  /\ Len(decisions) = DECISIONS_KEPT
  /\ decisions[DECISIONS_KEPT].action = "enter_both"
  /\ decisions[DECISIONS_KEPT - 1].action = "enter_strategy1"

====
